---- MODULE Spec2Model ----
(***************************************************************************)
(* Model of the LightGraph RAG backend services:                           *)
(*   services/lightrag_service.py     the per-group LightRAG instance cache *)
(*   services/group_service.py        group create / get / update / delete  *)
(*   services/conversation_service.py chat and chat_stream turns            *)
(*   services/query_service.py        query_group and query_group_stream    *)
(*   routes/query.py, conversations.py the SSE event generators             *)
(*   core/database.py                 the SQLite schema and its constraints *)
(*                                                                         *)
(* Every request is an asyncio coroutine.  Code between two awaits runs    *)
(* without interruption, so one action of the model is the code from one   *)
(* suspension point to the next; pc[p] names the await a request is        *)
(* suspended on.  A write transaction of one statement is committed in the *)
(* step that executes it: SQLite holds the write lock from the statement   *)
(* to the commit, and no other connection sees the row before the commit.  *)
(***************************************************************************)
EXTENDS Integers, Sequences, FiniteSets, TLC

\* ---------------------------------------------------------------- bounds
MaxProcs == 2       \* requests in flight at once
MaxGroups == 2      \* group ids uuid4 hands out
MaxEngines == 3     \* LightRAG objects constructed in one behaviour
MaxMsgs == 4        \* message rows written in one behaviour
MaxHistory == 10    \* message rows of a conversation before a turn is checked
MaxChunks == 2      \* chunks one engine stream produces
MaxClock == 1       \* seconds that pass in one behaviour
MaxDocs == 2        \* document rows written in one behaviour
max_turns == 5      \* _get_history_for_lightrag(conversation_id, max_turns=5)

Procs == 1..MaxProcs
GroupIds == 1..MaxGroups
ConvIds == {1, 2}

NameList == <<"Acme", "T1", "T2", "T3", "T4">>
Names == {NameList[i] : i \in GroupIds}
NoName == "<None>"          \* GroupUpdate.name is None
NoDescription == "<None>"   \* GroupUpdate.description is None
Modes == {"mix", "naive"}
UserTexts == {<<"h", "i">>}
Chunks == {<<"a">>, <<"b">>}
Responses == {<<"a", "b">>}
Contents == {<<"h", "e", "l", "l", "o">>, <<"h", "i">>}
NoEngine == 0
NoId == 0

VARIABLES
    groups,         \* table groups: id -> row
    conversations,  \* table conversations: id -> row
    messages,       \* table messages, in insertion (rowid) order
    documents,      \* table documents, in insertion order
    dirs,           \* group ids whose storage directory exists
    _instances,     \* lightrag_service._instances: group id -> engine handle
    engines,        \* every LightRAG object constructed so far
    clock,          \* datetime('now')
    nextGroupId,    \* the next uuid for a group
    nextMsgId,      \* the next uuid for a message or a document
    pc,             \* where each request is suspended
    frame,          \* arguments and locals of each request
    result,         \* what the last finished call of each request returned
    deleted         \* group ids whose delete_group returned normally

vars == <<groups, conversations, messages, documents, dirs, _instances, engines,
          clock, nextGroupId, nextMsgId, pc, frame, result, deleted>>

db == <<groups, conversations, messages, documents>>

\* ------------------------------------------------------------- rows, frames
NoRow == [name |-> NoName, description |-> NoDescription, created_at |-> 0, updated_at |-> 0]

\* A row of table groups as INSERT writes it: both timestamps default to now.
GroupRow(name, description, now) ==
    [name |-> name, description |-> description, created_at |-> now, updated_at |-> now]

NoFrame ==
    [op |-> "none", group_id |-> NoId, name |-> NoName, description |-> NoDescription,
     conversation_id |-> NoId, message |-> <<>>, mode |-> "none",
     existing |-> NoRow, rag |-> NoEngine, user_msg_id |-> NoId,
     assistant_msg_id |-> NoId, history |-> <<>>, full_response |-> <<>>,
     after_delete |-> FALSE, events |-> <<>>, n_before |-> 0,
     stream |-> FALSE, content |-> <<>>, doc_id |-> NoId, count |-> 0,
     after_cancel |-> FALSE, keys |-> <<>>, block |-> 0, connections |-> 0,
     raised |-> "none"]

NoResult ==
    [op |-> "none", group_id |-> NoId, name |-> NoName, outcome |-> "none",
     rag |-> NoEngine, after_delete |-> FALSE, user_msg_id |-> NoId,
     assistant_msg_id |-> NoId, conversation_id |-> NoId, mode |-> "none",
     events |-> <<>>, n_before |-> 0, stream |-> FALSE, content |-> <<>>,
     doc_id |-> NoId, count |-> 0, listing |-> <<>>, after_cancel |-> FALSE]

\* The consumer of a stream on group g has gone away before the call is made.
AfterCancel(g) ==
    \E q \in Procs : result[q].outcome = "Cancelled" /\ result[q].group_id = g

\* A request starts operation op with the given arguments.
Call(p, op, g, name, description) ==
    /\ pc[p] = "idle"
    /\ pc' = [pc EXCEPT ![p] = op]
    /\ frame' = [frame EXCEPT ![p] =
                    [NoFrame EXCEPT !.op = op, !.group_id = g, !.name = name,
                                    !.description = description,
                                    !.after_delete = (g \in deleted)]]
    /\ result' = [result EXCEPT ![p] = NoResult]

\* ------------------------------------------- routes: the SSE event stream
ChatOps == {"chat", "chat_stream"}
QueryOps == {"query_group", "query_group_stream"}
StreamOps == {"chat_stream", "query_group_stream"}

\* A bug that leaves out the except clause for GroupNotFoundError.
CaughtWithoutNotFound(op) == {"LightRAGNotReadyError"}

\* The exceptions the route's event_generator has an except clause for:
\* routes/query.py lines 47-50, routes/conversations.py lines 84-87.
Caught(op) ==
    IF op = "chat_stream"
    THEN {"GroupNotFoundError", "ConversationNotFoundError", "LightRAGNotReadyError"}
    ELSE {"GroupNotFoundError", "LightRAGNotReadyError"}

ChunkEvent(chunk) == [event |-> "chunk", data |-> chunk]
DoneEvent(mode) == [event |-> "done", data |-> <<mode>>]
ErrorEvent(detail) == [event |-> "error", data |-> <<detail>>]

\* A bug that yields done in a finally clause, after the error event too.
event_generator_finally(op, outcome, mode) ==
    IF outcome = "ok" THEN <<DoneEvent(mode)>>
    ELSE IF outcome \in Caught(op) THEN <<ErrorEvent(outcome), DoneEvent(mode)>>
    ELSE <<>>

\* What event_generator yields when the service's generator stops: done when
\* it is exhausted, error when it raised an exception of an except clause,
\* nothing when it raised another exception (it propagates out of the
\* generator) or the consumer closed it.
event_generator(op, outcome, mode) ==
    IF outcome = "ok" THEN <<DoneEvent(mode)>>
    ELSE IF outcome \in Caught(op) THEN <<ErrorEvent(outcome)>>
    ELSE <<>>

\* The call returns (outcome "ok") or raises (outcome is the exception's
\* name); listing and count are the rows and the total a listing returns.
Return(p, outcome, h, listing, count) ==
    /\ pc' = [pc EXCEPT ![p] = "idle"]
    /\ result' = [result EXCEPT ![p] =
                    [op |-> frame[p].op, group_id |-> frame[p].group_id,
                     name |-> frame[p].name, outcome |-> outcome, rag |-> h,
                     after_delete |-> frame[p].after_delete,
                     after_cancel |-> frame[p].after_cancel,
                     user_msg_id |-> frame[p].user_msg_id,
                     assistant_msg_id |-> frame[p].assistant_msg_id,
                     conversation_id |-> frame[p].conversation_id,
                     mode |-> frame[p].mode, n_before |-> frame[p].n_before,
                     stream |-> frame[p].stream, content |-> frame[p].content,
                     doc_id |-> frame[p].doc_id, count |-> count,
                     listing |-> listing,
                     events |-> IF frame[p].op \in StreamOps
                                THEN frame[p].events
                                        \o event_generator(frame[p].op, outcome, frame[p].mode)
                                ELSE <<>>]]
    /\ frame' = [frame EXCEPT ![p] = NoFrame]

Finish(p, outcome, h) == Return(p, outcome, h, <<>>, 0)

Goto(p, label) ==
    /\ pc' = [pc EXCEPT ![p] = label]
    /\ UNCHANGED result

\* ------------------------------------------------- lightrag_service.py
\* A bug that skips the working_dir.exists() check.
_group_dir_unchecked(g) == TRUE

_group_dir_exists(g) == g \in dirs

Cached(g) == _instances[g] # NoEngine

\* get_instance returned handle h to its caller.
get_instance_returns(p, h) ==
    IF frame[p].op = "get_instance"
    THEN Finish(p, "ok", h)
    ELSE /\ Goto(p, IF frame[p].op = "insert_document" THEN "ainsert" ELSE "aquery")
         /\ frame' = [frame EXCEPT ![p].rag = h]

get_instance_call(p) ==
    /\ \E g \in GroupIds : Call(p, "get_instance", g, NoName, NoDescription)
    /\ UNCHANGED <<db, dirs, _instances, engines, clock, nextGroupId, nextMsgId, deleted>>

\* lines 37-64 up to the await: cache hit, missing directory, or construction.
get_instance(p) ==
    /\ pc[p] = "get_instance"
    /\ LET g == frame[p].group_id IN
        IF Cached(g)
        THEN /\ get_instance_returns(p, _instances[g])
             /\ UNCHANGED engines
        ELSE IF ~_group_dir_exists(g)
        THEN /\ Finish(p, "GroupNotFoundError", NoEngine)
             /\ UNCHANGED engines
        ELSE /\ Len(engines) < MaxEngines
             /\ engines' = Append(engines, [group_id |-> g, state |-> "constructed",
                                            finalize_calls |-> 0])
             /\ frame' = [frame EXCEPT ![p].rag = Len(engines) + 1]
             /\ Goto(p, "initialize_storages")
    /\ UNCHANGED <<db, dirs, _instances, clock, nextGroupId, nextMsgId, deleted>>

\* LightRAG(...) raises inside the try: lines 45-63, 68-70.
get_instance_construct_fails(p) ==
    /\ pc[p] = "get_instance"
    /\ ~Cached(frame[p].group_id)
    /\ _group_dir_exists(frame[p].group_id)
    /\ Finish(p, "LightRAGNotReadyError", NoEngine)
    /\ UNCHANGED <<db, dirs, _instances, engines, clock, nextGroupId, nextMsgId, deleted>>

CacheInstance(g, h) == [_instances EXCEPT ![g] = h]

\* A bug that stores the handle before storage initialization has succeeded.
_instances_poisoned(g, h) == CacheInstance(g, h)

\* The except clause (lines 68-70) leaves the cache as it is.
_instances_on_failure(g, h) == _instances

\* await rag.initialize_storages() returned: lines 64-67.
initialize_storages(p) ==
    /\ pc[p] = "initialize_storages"
    /\ LET h == frame[p].rag IN
        /\ engines' = [engines EXCEPT ![h].state = "initialized"]
        /\ _instances' = CacheInstance(frame[p].group_id, h)
        /\ get_instance_returns(p, h)
    /\ UNCHANGED <<db, dirs, clock, nextGroupId, nextMsgId, deleted>>

\* await rag.initialize_storages() raised: lines 64, 68-70.
initialize_storages_fails(p) ==
    /\ pc[p] = "initialize_storages"
    /\ engines' = [engines EXCEPT ![frame[p].rag].state = "failed"]
    /\ _instances' = _instances_on_failure(frame[p].group_id, frame[p].rag)
    /\ Finish(p, "LightRAGNotReadyError", NoEngine)
    /\ UNCHANGED <<db, dirs, clock, nextGroupId, nextMsgId, deleted>>

remove_instance_call(p) ==
    /\ \E g \in GroupIds : Call(p, "remove_instance", g, NoName, NoDescription)
    /\ UNCHANGED <<db, dirs, _instances, engines, clock, nextGroupId, nextMsgId, deleted>>

\* A bug that takes the handle out of the cache only after finalization.
remove_instance_pops_late(p) ==
    /\ pc[p] = "remove_instance"
    /\ LET g == frame[p].group_id IN
        IF Cached(g)
        THEN /\ frame' = [frame EXCEPT ![p].rag = _instances[g]]
             /\ Goto(p, "finalize_storages")
        ELSE Finish(p, "ok", NoEngine)
    /\ UNCHANGED <<db, dirs, _instances, engines, clock, nextGroupId, nextMsgId, deleted>>

\* lines 124-127 up to the await: pop the handle, or nothing to do.
remove_instance(p) ==
    /\ pc[p] = "remove_instance"
    /\ LET g == frame[p].group_id IN
        IF Cached(g)
        THEN /\ frame' = [frame EXCEPT ![p].rag = _instances[g]]
             /\ _instances' = [_instances EXCEPT ![g] = NoEngine]
             /\ Goto(p, "finalize_storages")
        ELSE /\ Finish(p, "ok", NoEngine)
             /\ UNCHANGED _instances
    /\ UNCHANGED <<db, dirs, engines, clock, nextGroupId, nextMsgId, deleted>>

\* await rag.finalize_storages() returned: lines 126-127, 130.
finalize_storages(p) ==
    /\ pc[p] = "finalize_storages"
    /\ engines' = [engines EXCEPT ![frame[p].rag].finalize_calls = @ + 1,
                                  ![frame[p].rag].state = "finalized"]
    /\ Finish(p, "ok", frame[p].rag)
    /\ UNCHANGED <<db, dirs, _instances, clock, nextGroupId, nextMsgId, deleted>>

\* A bug that lets the error of finalize_storages out of remove_instance.
finalize_storages_raises(p) ==
    /\ pc[p] = "finalize_storages"
    /\ engines' = [engines EXCEPT ![frame[p].rag].finalize_calls = @ + 1,
                                  ![frame[p].rag].state = "finalize_failed"]
    /\ Finish(p, "StorageError", frame[p].rag)
    /\ UNCHANGED <<db, dirs, _instances, clock, nextGroupId, nextMsgId, deleted>>

\* await rag.finalize_storages() raised: `except Exception: pass`, lines
\* 126-130; remove_instance returns normally.
finalize_storages_fails(p) ==
    /\ pc[p] = "finalize_storages"
    /\ engines' = [engines EXCEPT ![frame[p].rag].finalize_calls = @ + 1,
                                  ![frame[p].rag].state = "finalize_failed"]
    /\ Finish(p, "ok", frame[p].rag)
    /\ UNCHANGED <<db, dirs, _instances, clock, nextGroupId, nextMsgId, deleted>>

shutdown_all_call(p) ==
    /\ Call(p, "shutdown_all", NoId, NoName, NoDescription)
    /\ UNCHANGED <<db, dirs, _instances, engines, clock, nextGroupId, nextMsgId, deleted>>

\* list(_instances.keys()): the cached group ids, in the order in which the
\* dict holds them (the order in which they were cached, which the model does
\* not record: any order).
Keys ==
    LET cached == {g \in GroupIds : Cached(g)} IN
    {keys \in [1..Cardinality(cached) -> cached] :
        \A i, j \in 1..Cardinality(cached) : i # j => keys[i] # keys[j]}

\* The group ids of keys from the first one that is cached now.
RECURSIVE FromCached(_)
FromCached(keys) ==
    IF keys = <<>> \/ Cached(Head(keys)) THEN keys ELSE FromCached(Tail(keys))

\* lines 135-137, the loop up to its next await: remove_instance returns at
\* once for a group that is no longer cached (line 124); for the first one
\* that is cached it pops the handle and awaits finalize_storages (125-127);
\* with no group left shutdown_all returns.
shutdown_all_loop(p, keys) ==
    LET rest == FromCached(keys) IN
    IF rest = <<>>
    THEN /\ Finish(p, "ok", NoEngine)
         /\ UNCHANGED _instances
    ELSE /\ frame' = [frame EXCEPT ![p].rag = _instances[Head(rest)],
                                   ![p].keys = Tail(rest)]
         /\ _instances' = [_instances EXCEPT ![Head(rest)] = NoEngine]
         /\ Goto(p, "shutdown_all_finalize")

\* line 135: for group_id in list(_instances.keys())
shutdown_all(p) ==
    /\ pc[p] = "shutdown_all"
    /\ \E keys \in Keys : shutdown_all_loop(p, keys)
    /\ UNCHANGED <<db, dirs, engines, clock, nextGroupId, nextMsgId, deleted>>

\* await rag.finalize_storages() returned inside shutdown_all's
\* remove_instance (lines 126-127, 130), and the loop goes on.
shutdown_all_finalize(p) ==
    /\ pc[p] = "shutdown_all_finalize"
    /\ engines' = [engines EXCEPT ![frame[p].rag].finalize_calls = @ + 1,
                                  ![frame[p].rag].state = "finalized"]
    /\ shutdown_all_loop(p, frame[p].keys)
    /\ UNCHANGED <<db, dirs, clock, nextGroupId, nextMsgId, deleted>>

\* await rag.finalize_storages() raised inside shutdown_all's
\* remove_instance: `except Exception: pass`, and the loop goes on.
shutdown_all_finalize_fails(p) ==
    /\ pc[p] = "shutdown_all_finalize"
    /\ engines' = [engines EXCEPT ![frame[p].rag].finalize_calls = @ + 1,
                                  ![frame[p].rag].state = "finalize_failed"]
    /\ shutdown_all_loop(p, frame[p].keys)
    /\ UNCHANGED <<db, dirs, clock, nextGroupId, nextMsgId, deleted>>

\* ------------------------------------------------------ group_service.py
Exists(g) == g \in DOMAIN groups

\* SELECT id FROM groups WHERE name = ? AND id != ?  (except NoId: no exclusion)
NameTaken(name, except) ==
    \E g \in DOMAIN groups : g # except /\ groups[g].name = name

\* A schema without UNIQUE on groups.name.
NameNotUnique(name, except) == TRUE

\* name TEXT NOT NULL UNIQUE: the statement is accepted only if no other row has the name.
UniqueName(name, except) == ~NameTaken(name, except)

\* ON DELETE CASCADE from groups to documents and conversations, and on to messages.
CascadeConversations(g) ==
    [c \in {c \in DOMAIN conversations : conversations[c].group_id # g} |-> conversations[c]]

CascadeMessages(g) ==
    SelectSeq(messages, LAMBDA m :
        m.conversation_id \in DOMAIN conversations
        /\ conversations[m.conversation_id].group_id # g)

CascadeDocuments(g) == SelectSeq(documents, LAMBDA d : d.group_id # g)

\* A bug that runs on a connection without PRAGMA foreign_keys=ON.
ForeignKeyUnchecked(owner, table) == TRUE

\* FOREIGN KEY (...) REFERENCES table(id), enforced on every connection that
\* get_connection opens (database.py line 50).
ForeignKey(owner, table) == owner \in DOMAIN table

create_group_call(p) ==
    /\ nextGroupId <= MaxGroups
    /\ \E name \in Names : Call(p, "create_group", nextGroupId, name, "")
    /\ nextGroupId' = nextGroupId + 1
    /\ UNCHANGED <<db, dirs, _instances, engines, clock, nextMsgId, deleted>>

\* lines 23-27: SELECT id FROM groups WHERE name = ?
create_group(p) ==
    /\ pc[p] = "create_group"
    /\ IF NameTaken(frame[p].name, NoId)
       THEN Finish(p, "GroupAlreadyExistsError", NoEngine)
       ELSE Goto(p, "create_group_insert") /\ UNCHANGED frame
    /\ UNCHANGED <<db, dirs, _instances, engines, clock, nextGroupId, nextMsgId, deleted>>

\* lines 29-33: INSERT INTO groups and commit; sqlite3.IntegrityError when the
\* UNIQUE constraint on name refuses the row.
create_group_insert(p) ==
    /\ pc[p] = "create_group_insert"
    /\ IF UniqueName(frame[p].name, NoId)
       THEN /\ groups' = [g \in DOMAIN groups \cup {frame[p].group_id} |->
                            IF g = frame[p].group_id
                            THEN GroupRow(frame[p].name, frame[p].description, clock)
                            ELSE groups[g]]
            /\ Goto(p, "create_group_mkdir")
            /\ UNCHANGED frame
       ELSE /\ Finish(p, "IntegrityError", NoEngine)
            /\ UNCHANGED groups
    /\ UNCHANGED <<conversations, messages, documents, dirs, _instances, engines, clock,
                   nextGroupId, nextMsgId, deleted>>

\* lines 35-38: group_dir.mkdir(parents=True, exist_ok=True), then the SELECT is awaited.
create_group_mkdir(p) ==
    /\ pc[p] = "create_group_mkdir"
    /\ dirs' = dirs \cup {frame[p].group_id}
    /\ Goto(p, "create_group_select")
    /\ UNCHANGED <<db, frame, _instances, engines, clock, nextGroupId, nextMsgId, deleted>>

\* line 36 raises OSError: the committed row stays, the finally clause closes db.
create_group_mkdir_fails(p) ==
    /\ pc[p] = "create_group_mkdir"
    /\ frame[p].group_id \notin dirs
    /\ Finish(p, "OSError", NoEngine)
    /\ UNCHANGED <<db, dirs, _instances, engines, clock, nextGroupId, nextMsgId, deleted>>

\* lines 38-47: SELECT * FROM groups WHERE id = ?; group["id"] on None is a TypeError.
create_group_select(p) ==
    /\ pc[p] = "create_group_select"
    /\ IF Exists(frame[p].group_id)
       THEN Finish(p, "ok", NoEngine)
       ELSE Finish(p, "TypeError", NoEngine)
    /\ UNCHANGED <<db, dirs, _instances, engines, clock, nextGroupId, nextMsgId, deleted>>

get_group_call(p) ==
    /\ \E g \in GroupIds : Call(p, "get_group", g, NoName, NoDescription)
    /\ UNCHANGED <<db, dirs, _instances, engines, clock, nextGroupId, nextMsgId, deleted>>

\* lines 96-120
get_group(p) ==
    /\ pc[p] = "get_group"
    /\ IF Exists(frame[p].group_id)
       THEN Finish(p, "ok", NoEngine)
       ELSE Finish(p, "GroupNotFoundError", NoEngine)
    /\ UNCHANGED <<db, dirs, _instances, engines, clock, nextGroupId, nextMsgId, deleted>>

update_group_call(p) ==
    /\ \E g \in GroupIds, name \in Names \cup {NoName}, d \in {"d", NoDescription} :
            Call(p, "update_group", g, name, d)
    /\ UNCHANGED <<db, dirs, _instances, engines, clock, nextGroupId, nextMsgId, deleted>>

\* A bug that writes the request's field even when it is None.
UnmergedField(given, none, prior) == given

\* lines 144-145: data.x if data.x is not None else existing["x"]
MergedField(given, none, prior) == IF given # none THEN given ELSE prior

\* lines 137-147: read the row, merge the fields, decide on the duplicate check.
update_group(p) ==
    /\ pc[p] = "update_group"
    /\ IF ~Exists(frame[p].group_id)
       THEN Finish(p, "GroupNotFoundError", NoEngine)
       ELSE /\ frame' = [frame EXCEPT ![p].existing = groups[frame[p].group_id]]
            /\ IF frame[p].name # NoName /\ frame[p].name # groups[frame[p].group_id].name
               THEN Goto(p, "update_group_dup")
               ELSE Goto(p, "update_group_update")
    /\ UNCHANGED <<db, dirs, _instances, engines, clock, nextGroupId, nextMsgId, deleted>>

\* lines 148-150: SELECT id FROM groups WHERE name = ? AND id != ?
update_group_dup(p) ==
    /\ pc[p] = "update_group_dup"
    /\ IF NameTaken(frame[p].name, frame[p].group_id)
       THEN Finish(p, "GroupAlreadyExistsError", NoEngine)
       ELSE Goto(p, "update_group_update") /\ UNCHANGED frame
    /\ UNCHANGED <<db, dirs, _instances, engines, clock, nextGroupId, nextMsgId, deleted>>

\* lines 152-156: UPDATE groups SET name, description, updated_at WHERE id = ?
\* and commit.  No row matches when the group was deleted meanwhile.
update_group_update(p) ==
    /\ pc[p] = "update_group_update"
    /\ LET g == frame[p].group_id
           name == MergedField(frame[p].name, NoName, frame[p].existing.name)
           description == MergedField(frame[p].description, NoDescription,
                                      frame[p].existing.description)
       IN  IF ~Exists(g)
           THEN Goto(p, "update_group_get") /\ UNCHANGED <<groups, frame>>
           ELSE IF UniqueName(name, g)
           THEN /\ groups' = [groups EXCEPT ![g].name = name,
                                            ![g].description = description,
                                            ![g].updated_at = clock]
                /\ Goto(p, "update_group_get")
                /\ UNCHANGED frame
           ELSE /\ Finish(p, "IntegrityError", NoEngine)
                /\ UNCHANGED groups
    /\ UNCHANGED <<conversations, messages, documents, dirs, _instances, engines, clock,
                   nextGroupId, nextMsgId, deleted>>

\* line 157: return await get_group(group_id)
update_group_get(p) ==
    /\ pc[p] = "update_group_get"
    /\ IF Exists(frame[p].group_id)
       THEN Finish(p, "ok", NoEngine)
       ELSE Finish(p, "GroupNotFoundError", NoEngine)
    /\ UNCHANGED <<db, dirs, _instances, engines, clock, nextGroupId, nextMsgId, deleted>>

delete_group_call(p) ==
    /\ \E g \in GroupIds : Call(p, "delete_group", g, NoName, NoDescription)
    /\ UNCHANGED <<db, dirs, _instances, engines, clock, nextGroupId, nextMsgId, deleted>>

\* lines 171-175: SELECT id FROM groups WHERE id = ?
delete_group(p) ==
    /\ pc[p] = "delete_group"
    /\ IF Exists(frame[p].group_id)
       THEN Goto(p, "delete_group_delete") /\ UNCHANGED frame
       ELSE Finish(p, "GroupNotFoundError", NoEngine)
    /\ UNCHANGED <<db, dirs, _instances, engines, clock, nextGroupId, nextMsgId, deleted>>

\* lines 177-178: DELETE FROM groups WHERE id = ? and commit, with the cascade.
delete_group_delete(p) ==
    /\ pc[p] = "delete_group_delete"
    /\ LET g == frame[p].group_id IN
        /\ groups' = [h \in DOMAIN groups \ {g} |-> groups[h]]
        /\ conversations' = CascadeConversations(g)
        /\ messages' = CascadeMessages(g)
        /\ documents' = CascadeDocuments(g)
    /\ Goto(p, "delete_group_rmtree")
    /\ UNCHANGED <<frame, dirs, _instances, engines, clock, nextGroupId, nextMsgId, deleted>>

\* lines 180-185: rmtree the directory when it exists, then return.  The cache
\* of lightrag_service is not touched.
delete_group_rmtree(p) ==
    /\ pc[p] = "delete_group_rmtree"
    /\ dirs' = dirs \ {frame[p].group_id}
    /\ deleted' = deleted \cup {frame[p].group_id}
    /\ Finish(p, "ok", NoEngine)
    /\ UNCHANGED <<db, _instances, engines, clock, nextGroupId, nextMsgId>>

\* line 183 raises (OSError from shutil.rmtree): nothing catches it.
delete_group_rmtree_fails(p) ==
    /\ pc[p] = "delete_group_rmtree"
    /\ frame[p].group_id \in dirs
    /\ Finish(p, "OSError", NoEngine)
    /\ UNCHANGED <<db, dirs, _instances, engines, clock, nextGroupId, nextMsgId, deleted>>

\* ----------------------------------------------- conversation_service.py
MessageIds == {messages[i].id : i \in 1..Len(messages)}

ConversationMessages(c) == SelectSeq(messages, LAMBDA m : m.conversation_id = c)

\* A bug that drops a user message equal to one the conversation already has.
DeduplicatedUserMessage(c, id, text, now) ==
    IF \E i \in 1..Len(messages) :
            /\ messages[i].conversation_id = c
            /\ messages[i].role = "user"
            /\ messages[i].content = text
    THEN messages
    ELSE Append(messages, [id |-> id, conversation_id |-> c, role |-> "user",
                           content |-> text, query_mode |-> "<None>", created_at |-> now])

\* A bug that writes a default mode into the query_mode column of a user row.
UserMessageTagged(c, id, text, now) ==
    Append(messages, [id |-> id, conversation_id |-> c, role |-> "user",
                      content |-> text, query_mode |-> "mix", created_at |-> now])

\* INSERT INTO messages (id, conversation_id, role, content) VALUES (?, ?, 'user', ?)
UserMessage(c, id, text, now) ==
    Append(messages, [id |-> id, conversation_id |-> c, role |-> "user",
                      content |-> text, query_mode |-> "<None>", created_at |-> now])

\* A bug that inserts the assistant row like the user row, without query_mode.
AssistantMessageUntagged(c, id, text, mode, now) ==
    Append(messages, [id |-> id, conversation_id |-> c, role |-> "assistant",
                      content |-> text, query_mode |-> "<None>", created_at |-> now])

\* INSERT INTO messages (...) VALUES (?, ?, 'assistant', ?, ?)
AssistantMessage(c, id, text, mode, now) ==
    Append(messages, [id |-> id, conversation_id |-> c, role |-> "assistant",
                      content |-> text, query_mode |-> mode, created_at |-> now])

\* "".join(full_response)
RECURSIVE Join(_)
Join(chunks) == IF chunks = <<>> THEN <<>> ELSE Head(chunks) \o Join(Tail(chunks))

\* The order in which SELECT ... ORDER BY created_at DESC returns rows, as
\* positions in rows, which are in rowid order: created_at not increasing.
\* The statement names no second key; SQLite reads the table in rowid order
\* and its sorter keeps rows with equal created_at in that order.
DescendingOrders(rows) ==
    LET n == Len(rows)
        Before(j, k) == \/ rows[j].created_at > rows[k].created_at
                        \/ rows[j].created_at = rows[k].created_at /\ j < k
        Rank(j) == 1 + Cardinality({k \in 1..n : Before(k, j)})
    IN {[i \in 1..n |-> CHOOSE j \in 1..n : Rank(j) = i]}

Min(a, b) == IF a < b THEN a ELSE b

\* lines 185-195: the first max_turns * 2 rows of that order, reversed, as
\* role and content.
HistoryOf(rows, order) ==
    LET n == Min(Len(rows), max_turns * 2) IN
    [i \in 1..n |-> [role |-> rows[order[n + 1 - i]].role,
                     content |-> rows[order[n + 1 - i]].content]]

chat_call(p) ==
    /\ pc[p] = "idle"
    /\ \E op \in {"chat", "chat_stream"}, g \in GroupIds, c \in ConvIds,
          text \in UserTexts, mode \in Modes :
        frame' = [frame EXCEPT ![p] =
                    [NoFrame EXCEPT !.op = op, !.group_id = g, !.conversation_id = c,
                                    !.message = text, !.mode = mode,
                                    !.after_delete = (g \in deleted),
                                    !.after_cancel = AfterCancel(g),
                                    !.n_before = Len(ConversationMessages(c))]]
    /\ pc' = [pc EXCEPT ![p] = "chat"]
    /\ result' = [result EXCEPT ![p] = NoResult]
    /\ UNCHANGED <<db, dirs, _instances, engines, clock, nextGroupId, nextMsgId, deleted>>

\* lines 216 / 294: await _verify_group_exists(group_id)
chat(p) ==
    /\ pc[p] = "chat"
    /\ IF Exists(frame[p].group_id)
       THEN Goto(p, "chat_conversation") /\ UNCHANGED frame
       ELSE Finish(p, "GroupNotFoundError", NoEngine)
    /\ UNCHANGED <<db, dirs, _instances, engines, clock, nextGroupId, nextMsgId, deleted>>

\* A bug that looks the conversation up by its id alone.
ConversationAnyGroup(c, g) == c \in DOMAIN conversations

\* SELECT * FROM conversations WHERE id = ? AND group_id = ?
ConversationInGroup(c, g) ==
    c \in DOMAIN conversations /\ conversations[c].group_id = g

\* lines 217-220 / 295-297: await _get_conversation_row(...), then the uuids:
\* chat draws the user and the assistant id, chat_stream the user id.
chat_conversation(p) ==
    /\ pc[p] = "chat_conversation"
    /\ IF ConversationInGroup(frame[p].conversation_id, frame[p].group_id)
       THEN /\ frame' = [frame EXCEPT
                            ![p].user_msg_id = nextMsgId,
                            ![p].assistant_msg_id =
                                IF frame[p].op = "chat" THEN nextMsgId + 1 ELSE NoId]
            /\ nextMsgId' = IF frame[p].op = "chat" THEN nextMsgId + 2 ELSE nextMsgId + 1
            /\ Goto(p, "chat_user_message")
       ELSE /\ Finish(p, "ConversationNotFoundError", NoEngine)
            /\ UNCHANGED nextMsgId
    /\ UNCHANGED <<db, dirs, _instances, engines, clock, nextGroupId, deleted>>

\* lines 222-230 / 298-306: INSERT the user message and commit.  The foreign
\* key refuses the row when the conversation is gone.  The table holds at
\* most bound rows.
chat_user_message_within(p, bound) ==
    /\ pc[p] = "chat_user_message"
    /\ Len(messages) < bound
    /\ IF ForeignKey(frame[p].conversation_id, conversations)
       THEN /\ messages' = UserMessage(frame[p].conversation_id, frame[p].user_msg_id,
                                       frame[p].message, clock)
            /\ Goto(p, "chat_history")
            /\ UNCHANGED frame
       ELSE /\ Finish(p, "IntegrityError", NoEngine)
            /\ UNCHANGED messages
    /\ UNCHANGED <<groups, conversations, documents, dirs, _instances, engines, clock,
                   nextGroupId, nextMsgId, deleted>>

chat_user_message(p) == chat_user_message_within(p, MaxMsgs)

\* lines 232 / 308: history = await _get_history_for_lightrag(conversation_id)
chat_history(p) ==
    /\ pc[p] = "chat_history"
    /\ LET rows == ConversationMessages(frame[p].conversation_id) IN
        \E order \in DescendingOrders(rows) :
            frame' = [frame EXCEPT ![p].history = HistoryOf(rows, order)]
    /\ Goto(p, "get_instance")
    /\ UNCHANGED <<db, dirs, _instances, engines, clock, nextGroupId, nextMsgId, deleted>>

\* the history read raises (sqlite3.OperationalError)
chat_history_fails(p) ==
    /\ pc[p] = "chat_history"
    /\ Finish(p, "OperationalError", NoEngine)
    /\ UNCHANGED <<db, dirs, _instances, engines, clock, nextGroupId, nextMsgId, deleted>>

\* lines 236-239: chat awaits the whole answer; lines 312-315: chat_stream
\* gets the engine's chunk iterator.
aquery(p) ==
    /\ pc[p] = "aquery"
    /\ frame[p].op \in ChatOps
    /\ IF frame[p].op = "chat"
       THEN /\ \E r \in Responses : frame' = [frame EXCEPT ![p].full_response = <<r>>]
            /\ Goto(p, "chat_assistant_message")
       ELSE /\ Goto(p, "stream_next")
            /\ UNCHANGED frame
    /\ UNCHANGED <<db, dirs, _instances, engines, clock, nextGroupId, nextMsgId, deleted>>

\* rag.aquery raises
aquery_fails(p) ==
    /\ pc[p] = "aquery"
    /\ Finish(p, "EngineError", NoEngine)
    /\ UNCHANGED <<db, dirs, _instances, engines, clock, nextGroupId, nextMsgId, deleted>>

\* A bug that keeps the latest chunk in place of the list of chunks.
AccumulateLatest(full_response, chunk) == <<chunk>>

\* line 319: full_response.append(chunk)
Accumulate(full_response, chunk) == Append(full_response, chunk)

\* lines 318-320: the engine yields a chunk; chat_stream appends it to
\* full_response and yields it, and the route's event_generator yields it as
\* a chunk event.  lightrag_service.query_stream (lines 114-115) and
\* query_service.query_group_stream (lines 60-61) yield it on as it is.
stream_next(p) ==
    /\ pc[p] = "stream_next"
    /\ Len(frame[p].events) < MaxChunks
    /\ \E chunk \in Chunks :
        frame' = [frame EXCEPT
                    ![p].full_response =
                        IF frame[p].op = "chat_stream" THEN Accumulate(@, chunk) ELSE @,
                    ![p].events = Append(@, ChunkEvent(chunk))]
    /\ Goto(p, "stream_yield")
    /\ UNCHANGED <<db, dirs, _instances, engines, clock, nextGroupId, nextMsgId, deleted>>

\* line 318, 322: the engine's iterator is exhausted; the assistant id is drawn.
stream_end(p) ==
    /\ pc[p] = "stream_next"
    /\ IF frame[p].op = "chat_stream"
       THEN /\ frame' = [frame EXCEPT ![p].assistant_msg_id = nextMsgId]
            /\ nextMsgId' = nextMsgId + 1
            /\ Goto(p, "chat_assistant_message")
       ELSE /\ Finish(p, "ok", NoEngine)
            /\ UNCHANGED nextMsgId
    /\ UNCHANGED <<db, dirs, _instances, engines, clock, nextGroupId, deleted>>

\* line 318: the engine's iterator raises
stream_fails(p) ==
    /\ pc[p] = "stream_next"
    /\ Finish(p, "EngineError", NoEngine)
    /\ UNCHANGED <<db, dirs, _instances, engines, clock, nextGroupId, nextMsgId, deleted>>

\* line 320: the consumer asks for the next chunk
stream_resume(p) ==
    /\ pc[p] = "stream_yield"
    /\ Goto(p, "stream_next")
    /\ UNCHANGED <<db, frame, dirs, _instances, engines, clock, nextGroupId, nextMsgId,
                   deleted>>

\* A bug that saves the text received so far when the consumer goes away.
stream_cancel_persists(p) ==
    /\ pc[p] \in {"stream_yield", "stream_next"}
    /\ IF frame[p].op = "chat_stream"
       THEN /\ messages' = AssistantMessage(frame[p].conversation_id, nextMsgId,
                                Join(frame[p].full_response), frame[p].mode, clock)
            /\ conversations' =
                    [conversations EXCEPT ![frame[p].conversation_id].updated_at = clock]
            /\ nextMsgId' = nextMsgId + 1
       ELSE UNCHANGED <<messages, conversations, nextMsgId>>
    /\ Finish(p, "Cancelled", NoEngine)
    /\ UNCHANGED <<groups, documents, dirs, _instances, engines, clock, nextGroupId,
                   deleted>>

\* A bug that keeps the generator running after the consumer has gone away:
\* the loop goes on pulling chunks from the engine.
stream_cancel_keeps_pulling(p) ==
    /\ pc[p] \in {"stream_yield", "stream_next"}
    /\ result' = [result EXCEPT ![p] =
                    [NoResult EXCEPT !.op = frame[p].op, !.group_id = frame[p].group_id,
                                     !.outcome = "Cancelled",
                                     !.events = frame[p].events]]
    /\ pc' = [pc EXCEPT ![p] = "stream_next"]
    /\ UNCHANGED <<db, frame, dirs, _instances, engines, clock, nextGroupId, nextMsgId,
                   deleted>>

\* The consumer goes away (client disconnect): the exception is raised where
\* the generator is suspended, at the yield (line 320) or at the await of the
\* next chunk (line 318), and nothing after the loop runs.
stream_cancel(p) ==
    /\ pc[p] \in {"stream_yield", "stream_next"}
    /\ Finish(p, "Cancelled", NoEngine)
    /\ UNCHANGED <<db, dirs, _instances, engines, clock, nextGroupId, nextMsgId, deleted>>

\* A bug that ends the stream, and so lets done out, with the assistant
\* message still to be written.
chat_assistant_message_deferred(p) ==
    /\ pc[p] = "chat_assistant_message"
    /\ Len(messages) < MaxMsgs
    /\ IF frame[p].op = "chat"
       THEN /\ messages' = AssistantMessage(frame[p].conversation_id,
                                frame[p].assistant_msg_id, Join(frame[p].full_response),
                                frame[p].mode, clock)
            /\ Goto(p, "chat_response") /\ UNCHANGED frame
       ELSE /\ Finish(p, "ok", NoEngine)
            /\ UNCHANGED messages
    /\ UNCHANGED <<groups, conversations, documents, dirs, _instances, engines, clock,
                   nextGroupId, nextMsgId, deleted>>

\* lines 241-251 / 323-335: INSERT the assistant message, UPDATE the
\* conversation's updated_at, commit.  The foreign key refuses the row when
\* the conversation is gone, and nothing is committed.
chat_assistant_message(p) ==
    /\ pc[p] = "chat_assistant_message"
    /\ Len(messages) < MaxMsgs
    /\ LET c == frame[p].conversation_id IN
        IF ForeignKey(c, conversations)
        THEN /\ messages' = AssistantMessage(c, frame[p].assistant_msg_id,
                                Join(frame[p].full_response), frame[p].mode, clock)
             /\ conversations' = [conversations EXCEPT ![c].updated_at = clock]
             /\ IF frame[p].op = "chat"
                THEN Goto(p, "chat_response") /\ UNCHANGED frame
                ELSE Finish(p, "ok", NoEngine)
        ELSE /\ Finish(p, "IntegrityError", NoEngine)
             /\ UNCHANGED <<messages, conversations>>
    /\ UNCHANGED <<groups, documents, dirs, _instances, engines, clock, nextGroupId,
                   nextMsgId, deleted>>

\* A bug that commits the INSERT on its own, before the UPDATE is executed.
chat_assistant_message_autocommit(p) ==
    /\ pc[p] = "chat_assistant_message"
    /\ Len(messages) < MaxMsgs
    /\ ForeignKey(frame[p].conversation_id, conversations)
    /\ messages' = AssistantMessage(frame[p].conversation_id, frame[p].assistant_msg_id,
                        Join(frame[p].full_response), frame[p].mode, clock)
    /\ Finish(p, "OperationalError", frame[p].rag)
    /\ UNCHANGED <<groups, conversations, documents, dirs, _instances, engines, clock,
                   nextGroupId, nextMsgId, deleted>>

\* lines 241-251 / 323-335: the INSERT was executed and the UPDATE or the
\* commit raises (the database is locked, the task is cancelled): the finally
\* clause closes the connection without a commit and the INSERT is rolled
\* back.
chat_assistant_message_fails(p) ==
    /\ pc[p] = "chat_assistant_message"
    /\ Len(messages) < MaxMsgs
    /\ ForeignKey(frame[p].conversation_id, conversations)
    /\ Finish(p, "OperationalError", frame[p].rag)
    /\ UNCHANGED <<db, dirs, _instances, engines, clock, nextGroupId, nextMsgId, deleted>>

\* lines 253-275: SELECT both rows and build the ChatResponse; a row that is
\* gone is None, and subscripting it a TypeError.
chat_response(p) ==
    /\ pc[p] = "chat_response"
    /\ IF {frame[p].user_msg_id, frame[p].assistant_msg_id} \subseteq MessageIds
       THEN Finish(p, "ok", NoEngine)
       ELSE Finish(p, "TypeError", NoEngine)
    /\ UNCHANGED <<db, dirs, _instances, engines, clock, nextGroupId, nextMsgId, deleted>>

conversation_call(p) ==
    /\ pc[p] = "idle"
    /\ \E op \in {"delete_conversation", "get_conversation_history"},
          g \in GroupIds, c \in ConvIds :
        /\ frame' = [frame EXCEPT ![p] =
                        [NoFrame EXCEPT !.op = op, !.group_id = g, !.conversation_id = c,
                                        !.after_delete = (g \in deleted),
                                        !.n_before = Len(ConversationMessages(c))]]
        /\ pc' = [pc EXCEPT ![p] = op]
    /\ result' = [result EXCEPT ![p] = NoResult]
    /\ UNCHANGED <<db, dirs, _instances, engines, clock, nextGroupId, nextMsgId, deleted>>

\* line 349: await _verify_group_exists(group_id)
delete_conversation(p) ==
    /\ pc[p] = "delete_conversation"
    /\ IF Exists(frame[p].group_id)
       THEN Goto(p, "delete_conversation_row") /\ UNCHANGED frame
       ELSE Finish(p, "GroupNotFoundError", NoEngine)
    /\ UNCHANGED <<db, dirs, _instances, engines, clock, nextGroupId, nextMsgId, deleted>>

\* line 350: await _get_conversation_row(group_id, conversation_id)
delete_conversation_row(p) ==
    /\ pc[p] = "delete_conversation_row"
    /\ IF ConversationInGroup(frame[p].conversation_id, frame[p].group_id)
       THEN Goto(p, "delete_conversation_delete") /\ UNCHANGED frame
       ELSE Finish(p, "ConversationNotFoundError", NoEngine)
    /\ UNCHANGED <<db, dirs, _instances, engines, clock, nextGroupId, nextMsgId, deleted>>

\* A schema without ON DELETE CASCADE on messages.conversation_id, on a
\* connection that does not enforce foreign keys: the messages stay.
delete_conversation_without_cascade(p) ==
    /\ pc[p] = "delete_conversation_delete"
    /\ LET c == frame[p].conversation_id IN
        conversations' = [d \in DOMAIN conversations \ {c} |-> conversations[d]]
    /\ Finish(p, "ok", NoEngine)
    /\ UNCHANGED <<groups, messages, documents, dirs, _instances, engines, clock,
                   nextGroupId, nextMsgId, deleted>>

\* lines 352-357: DELETE FROM conversations WHERE id = ? and commit; the
\* messages of the conversation go with it (ON DELETE CASCADE).
delete_conversation_delete(p) ==
    /\ pc[p] = "delete_conversation_delete"
    /\ LET c == frame[p].conversation_id IN
        /\ conversations' = [d \in DOMAIN conversations \ {c} |-> conversations[d]]
        /\ messages' = SelectSeq(messages, LAMBDA m : m.conversation_id # c)
    /\ Finish(p, "ok", NoEngine)
    /\ UNCHANGED <<groups, documents, dirs, _instances, engines, clock, nextGroupId,
                   nextMsgId, deleted>>

\* line 140: await _verify_group_exists(group_id)
get_conversation_history(p) ==
    /\ pc[p] = "get_conversation_history"
    /\ IF Exists(frame[p].group_id)
       THEN Goto(p, "get_conversation_history_row") /\ UNCHANGED frame
       ELSE Finish(p, "GroupNotFoundError", NoEngine)
    /\ UNCHANGED <<db, dirs, _instances, engines, clock, nextGroupId, nextMsgId, deleted>>

\* line 141: conv_row = await _get_conversation_row(group_id, conversation_id)
get_conversation_history_row(p) ==
    /\ pc[p] = "get_conversation_history_row"
    /\ IF ConversationInGroup(frame[p].conversation_id, frame[p].group_id)
       THEN Goto(p, "get_conversation_history_count") /\ UNCHANGED frame
       ELSE Finish(p, "ConversationNotFoundError", NoEngine)
    /\ UNCHANGED <<db, dirs, _instances, engines, clock, nextGroupId, nextMsgId, deleted>>

\* lines 145-149: SELECT COUNT(*) FROM messages WHERE conversation_id = ?
get_conversation_history_count(p) ==
    /\ pc[p] = "get_conversation_history_count"
    /\ frame' = [frame EXCEPT ![p].count = Len(ConversationMessages(frame[p].conversation_id))]
    /\ Goto(p, "get_conversation_history_select")
    /\ UNCHANGED <<db, dirs, _instances, engines, clock, nextGroupId, nextMsgId, deleted>>

\* A sorter that returns rows with equal created_at in any order.
AscendingOrdersUnstable(rows) ==
    {order \in [1..Len(rows) -> 1..Len(rows)] :
        /\ \A i, j \in 1..Len(rows) : i # j => order[i] # order[j]
        /\ \A i, j \in 1..Len(rows) :
            i < j => rows[order[i]].created_at <= rows[order[j]].created_at}

\* The order in which SELECT ... ORDER BY created_at ASC returns rows, as
\* positions in rows, which are in rowid order: created_at not decreasing,
\* rows with equal created_at in rowid order (SQLite's sorter keeps them in
\* the order of the table scan).
AscendingOrders(rows) ==
    LET n == Len(rows)
        Before(j, k) == \/ rows[j].created_at < rows[k].created_at
                        \/ rows[j].created_at = rows[k].created_at /\ j < k
        Rank(j) == 1 + Cardinality({k \in 1..n : Before(k, j)})
    IN {[i \in 1..n |-> CHOOSE j \in 1..n : Rank(j) = i]}

\* lines 151-176: SELECT * FROM messages WHERE conversation_id = ? ORDER BY
\* created_at ASC, and the response with the count read before.
get_conversation_history_select(p) ==
    /\ pc[p] = "get_conversation_history_select"
    /\ LET rows == ConversationMessages(frame[p].conversation_id) IN
        \E order \in AscendingOrders(rows) :
            Return(p, "ok", NoEngine, [i \in 1..Len(rows) |-> rows[order[i]]],
                   frame[p].count)
    /\ UNCHANGED <<db, dirs, _instances, engines, clock, nextGroupId, nextMsgId, deleted>>

\* ------------------------------------------------ document_service.py
\* A bug that stores the length of the content in bytes with its terminator.
content_length_padded(content) == Len(content) + 1

\* line 43: len(content)
content_length(content) == Len(content)

\* DocumentInsert.filename, its default
filename == "manual_input.txt"

\* INSERT INTO documents (id, group_id, filename, content_length) VALUES (...)
DocumentRow(id, g, file, content, now) ==
    [id |-> id, group_id |-> g, filename |-> file,
     content_length |-> content_length(content), created_at |-> now]

GroupDocuments(g) == SelectSeq(documents, LAMBDA d : d.group_id = g)

insert_document_call(p) ==
    /\ pc[p] = "idle"
    /\ \E g \in GroupIds, content \in Contents :
        frame' = [frame EXCEPT ![p] =
                    [NoFrame EXCEPT !.op = "insert_document", !.group_id = g,
                                    !.content = content,
                                    !.after_delete = (g \in deleted),
                                    !.n_before = Len(GroupDocuments(g))]]
    /\ pc' = [pc EXCEPT ![p] = "insert_document"]
    /\ result' = [result EXCEPT ![p] = NoResult]
    /\ UNCHANGED <<db, dirs, _instances, engines, clock, nextGroupId, nextMsgId, deleted>>

\* A bug that writes the document row before the engine is called.
insert_document_row_first(p) ==
    /\ pc[p] = "insert_document"
    /\ IF Exists(frame[p].group_id)
       THEN /\ frame' = [frame EXCEPT ![p].doc_id = nextMsgId]
            /\ nextMsgId' = nextMsgId + 1
            /\ documents' = Append(documents,
                    [id |-> nextMsgId, group_id |-> frame[p].group_id,
                     filename |-> "manual_input.txt",
                     content_length |-> Len(frame[p].content), created_at |-> clock])
            /\ Goto(p, "get_instance")
       ELSE /\ Finish(p, "GroupNotFoundError", NoEngine)
            /\ UNCHANGED <<nextMsgId, documents>>
    /\ UNCHANGED <<groups, conversations, messages, dirs, _instances, engines, clock,
                   nextGroupId, deleted>>

\* lines 33-37: await _verify_group_exists(group_id), draw the document id,
\* then lightrag_service.insert_text, which starts with get_instance.
insert_document(p) ==
    /\ pc[p] = "insert_document"
    /\ IF Exists(frame[p].group_id)
       THEN /\ frame' = [frame EXCEPT ![p].doc_id = nextMsgId]
            /\ nextMsgId' = nextMsgId + 1
            /\ Goto(p, "get_instance")
       ELSE /\ Finish(p, "GroupNotFoundError", NoEngine)
            /\ UNCHANGED nextMsgId
    /\ UNCHANGED <<db, dirs, _instances, engines, clock, nextGroupId, deleted>>

\* lightrag_service.insert_text line 81: await rag.ainsert(text) returned.
ainsert(p) ==
    /\ pc[p] = "ainsert"
    /\ Goto(p, "insert_document_insert")
    /\ UNCHANGED <<db, frame, dirs, _instances, engines, clock, nextGroupId, nextMsgId,
                   deleted>>

\* await rag.ainsert(text) raised
ainsert_fails(p) ==
    /\ pc[p] = "ainsert"
    /\ Finish(p, "EngineError", NoEngine)
    /\ UNCHANGED <<db, dirs, _instances, engines, clock, nextGroupId, nextMsgId, deleted>>

\* lines 39-45: INSERT the document row and commit; the foreign key refuses
\* the row when the group is gone.
insert_document_insert(p) ==
    /\ pc[p] = "insert_document_insert"
    /\ Len(documents) < MaxDocs
    /\ IF ForeignKey(frame[p].group_id, groups)
       THEN /\ documents' = Append(documents,
                    DocumentRow(frame[p].doc_id, frame[p].group_id, filename,
                                frame[p].content, clock))
            /\ Goto(p, "insert_document_select")
            /\ UNCHANGED frame
       ELSE /\ Finish(p, "IntegrityError", NoEngine)
            /\ UNCHANGED documents
    /\ UNCHANGED <<groups, conversations, messages, dirs, _instances, engines, clock,
                   nextGroupId, nextMsgId, deleted>>

\* lines 47-55: SELECT the row and build the DocumentResponse; a row that is
\* gone is None, and subscripting it a TypeError.
insert_document_select(p) ==
    /\ pc[p] = "insert_document_select"
    /\ IF \E i \in 1..Len(documents) : documents[i].id = frame[p].doc_id
       THEN Finish(p, "ok", NoEngine)
       ELSE Finish(p, "TypeError", NoEngine)
    /\ UNCHANGED <<db, dirs, _instances, engines, clock, nextGroupId, nextMsgId, deleted>>

list_documents_call(p) ==
    /\ pc[p] = "idle"
    /\ \E g \in GroupIds :
        frame' = [frame EXCEPT ![p] =
                    [NoFrame EXCEPT !.op = "list_documents", !.group_id = g,
                                    !.after_delete = (g \in deleted)]]
    /\ pc' = [pc EXCEPT ![p] = "list_documents"]
    /\ result' = [result EXCEPT ![p] = NoResult]
    /\ UNCHANGED <<db, dirs, _instances, engines, clock, nextGroupId, nextMsgId, deleted>>

\* line 72: await _verify_group_exists(group_id)
list_documents(p) ==
    /\ pc[p] = "list_documents"
    /\ IF Exists(frame[p].group_id)
       THEN Goto(p, "list_documents_select") /\ UNCHANGED frame
       ELSE Finish(p, "GroupNotFoundError", NoEngine)
    /\ UNCHANGED <<db, dirs, _instances, engines, clock, nextGroupId, nextMsgId, deleted>>

\* lines 74-91: SELECT * FROM documents WHERE group_id = ? ORDER BY
\* created_at DESC; total is the number of rows returned.
list_documents_select(p) ==
    /\ pc[p] = "list_documents_select"
    /\ LET rows == GroupDocuments(frame[p].group_id) IN
        \E order \in DescendingOrders(rows) :
            Return(p, "ok", NoEngine, [i \in 1..Len(rows) |-> rows[order[i]]], Len(rows))
    /\ UNCHANGED <<db, dirs, _instances, engines, clock, nextGroupId, nextMsgId, deleted>>

\* --------------------------------------------------- query_service.py
\* A bug that goes to the registry without looking the group up.
_verify_group_skipped(g) == TRUE

\* lines 9-16: SELECT id FROM groups WHERE id = ?
_verify_group_exists(g) == Exists(g)

\* The request body is a QueryRequest: query, mode and stream.
query_call(p) ==
    /\ pc[p] = "idle"
    /\ \E op \in QueryOps, g \in GroupIds, mode \in Modes, stream \in BOOLEAN :
        frame' = [frame EXCEPT ![p] =
                    [NoFrame EXCEPT !.op = op, !.group_id = g, !.mode = mode,
                                    !.stream = stream,
                                    !.after_delete = (g \in deleted),
                                    !.after_cancel = AfterCancel(g)]]
    /\ pc' = [pc EXCEPT ![p] = "query_group"]
    /\ result' = [result EXCEPT ![p] = NoResult]
    /\ UNCHANGED <<db, dirs, _instances, engines, clock, nextGroupId, nextMsgId, deleted>>

\* lines 33 / 58: await _verify_group_exists(group_id), then
\* lightrag_service.query / query_stream, which starts with get_instance.
query_group(p) ==
    /\ pc[p] = "query_group"
    /\ IF _verify_group_exists(frame[p].group_id)
       THEN Goto(p, "get_instance") /\ UNCHANGED frame
       ELSE Finish(p, "GroupNotFoundError", NoEngine)
    /\ UNCHANGED <<db, dirs, _instances, engines, clock, nextGroupId, nextMsgId, deleted>>

\* A bug that keeps a log of the answered queries in table messages.
query_aquery_logged(p) ==
    /\ pc[p] = "aquery"
    /\ frame[p].op \in QueryOps
    /\ messages' = Append(messages, [id |-> nextMsgId, conversation_id |-> NoId,
                                     role |-> "user", content |-> <<>>,
                                     query_mode |-> frame[p].mode, created_at |-> clock])
    /\ IF frame[p].op = "query_group"
       THEN Finish(p, "ok", frame[p].rag)
       ELSE Goto(p, "stream_next") /\ UNCHANGED frame
    /\ UNCHANGED <<groups, conversations, documents, dirs, _instances, engines, clock,
                   nextGroupId, nextMsgId, deleted>>

\* lightrag_service.query line 97 and query_service lines 35-41: the answer
\* is awaited and returned as a QueryResponse; lightrag_service.query_stream
\* line 113: the engine's chunk iterator is returned.
query_aquery(p) ==
    /\ pc[p] = "aquery"
    /\ frame[p].op \in QueryOps
    /\ IF frame[p].op = "query_group"
       THEN Finish(p, "ok", frame[p].rag)
       ELSE Goto(p, "stream_next") /\ UNCHANGED frame
    /\ UNCHANGED <<db, dirs, _instances, engines, clock, nextGroupId, nextMsgId, deleted>>

\* a second passes: datetime('now') moves on
Tick ==
    /\ clock < MaxClock
    /\ clock' = clock + 1
    /\ UNCHANGED <<db, dirs, _instances, engines, nextGroupId, nextMsgId, pc, frame,
                   result, deleted>>

\* ------------------------------------------------------- specifications
InitProcs ==
    /\ pc = [p \in Procs |-> "idle"]
    /\ frame = [p \in Procs |-> NoFrame]
    /\ result = [p \in Procs |-> NoResult]

\* The registry alone: some groups were created (row and directory), the
\* others are unknown ids; no engine has been built yet.
InitRegistry ==
    /\ \E D \in SUBSET GroupIds :
        /\ groups = [g \in D |-> GroupRow(NameList[g], "", 0)]
        /\ dirs = D
    /\ conversations = <<>>
    /\ messages = <<>>
    /\ documents = <<>>
    /\ _instances = [g \in GroupIds |-> NoEngine]
    /\ engines = <<>>
    /\ clock = 0
    /\ nextGroupId = MaxGroups + 1
    /\ nextMsgId = 1
    /\ deleted = {}
    /\ InitProcs

NextRegistry ==
    \E p \in Procs :
        \/ get_instance_call(p)
        \/ get_instance(p)
        \/ get_instance_construct_fails(p)
        \/ initialize_storages(p)
        \/ initialize_storages_fails(p)
        \/ remove_instance_call(p)
        \/ remove_instance(p)
        \/ finalize_storages(p)
        \/ finalize_storages_fails(p)

SpecRegistry == InitRegistry /\ [][NextRegistry]_vars

\* The registry with shutdown_all: requests resolve and evict engines and
\* finalize all of them, in any interleaving.
NextEvict ==
    \E p \in Procs :
        \/ get_instance_call(p)
        \/ get_instance(p)
        \/ initialize_storages(p)
        \/ remove_instance_call(p)
        \/ remove_instance(p)
        \/ finalize_storages(p)
        \/ finalize_storages_fails(p)
        \/ shutdown_all_call(p)
        \/ shutdown_all(p)
        \/ shutdown_all_finalize(p)
        \/ shutdown_all_finalize_fails(p)

SpecEvict == InitRegistry /\ [][NextEvict]_vars

\* ------------------------------------------- connections to the database
\* The operations that call the engine, as the sequence of their blocks: "db"
\* is `db = await get_connection()` followed by `try: ... finally: await
\* db.close()`, "engine" an await on the engine (get_instance, then aquery or
\* ainsert), "yield" the loop that yields the chunks of a stream.
\*   chat: _verify_group_exists (18-24), _get_conversation_row (28-41), the
\*     user message (222-230), _get_history_for_lightrag (183-197),
\*     get_instance (234), aquery (236), the assistant message (241-277);
\*   chat_stream: the same with the loop at 316-320 before the assistant
\*     message (323-335);
\*   insert_document: _verify_group_exists (10-16), insert_text's
\*     get_instance and ainsert (lightrag_service.py 80-81), the row (39-57);
\*   query_group and query_group_stream: _verify_group_exists, get_instance,
\*     aquery, and the loop of the stream.
Program(op) ==
    CASE op = "chat" -> <<"db", "db", "db", "db", "engine", "engine", "db">>
      [] op = "chat_stream" -> <<"db", "db", "db", "db", "engine", "engine", "yield", "db">>
      [] op = "insert_document" -> <<"db", "engine", "engine", "db">>
      [] op = "query_group" -> <<"db", "engine", "engine">>
      [] op = "query_group_stream" -> <<"db", "engine", "engine", "yield">>

EngineOps == {"chat", "chat_stream", "insert_document", "query_group", "query_group_stream"}

\* What a statement of a block raises.
DatabaseErrors == {"GroupNotFoundError", "IntegrityError"}

\* Where a request is when it enters a block of the given kind.
BlockEntry(kind) ==
    CASE kind = "db" -> "get_connection"
      [] kind = "engine" -> "await_engine"
      [] kind = "yield" -> "await_yield"

connections_call(p) ==
    /\ pc[p] = "idle"
    /\ \E op \in EngineOps :
        /\ frame' = [frame EXCEPT ![p] = [NoFrame EXCEPT !.op = op, !.block = 1]]
        /\ pc' = [pc EXCEPT ![p] = BlockEntry(Program(op)[1])]
    /\ result' = [result EXCEPT ![p] = NoResult]
    /\ UNCHANGED <<db, dirs, _instances, engines, clock, nextGroupId, nextMsgId, deleted>>

\* The block is done: the next block of the operation, or its return.
NextBlock(p) ==
    IF frame[p].block = Len(Program(frame[p].op))
    THEN Finish(p, "ok", NoEngine)
    ELSE /\ frame' = [frame EXCEPT ![p].block = @ + 1]
         /\ Goto(p, BlockEntry(Program(frame[p].op)[frame[p].block + 1]))

\* db = await get_connection() returned a connection (database.py 45-51).
get_connection(p) ==
    /\ pc[p] = "get_connection"
    /\ frame' = [frame EXCEPT ![p].connections = @ + 1]
    /\ Goto(p, "execute")
    /\ UNCHANGED <<db, dirs, _instances, engines, clock, nextGroupId, nextMsgId, deleted>>

\* aiosqlite.connect raised: no connection was opened.
get_connection_fails(p) ==
    /\ pc[p] = "get_connection"
    /\ Finish(p, "OperationalError", NoEngine)
    /\ UNCHANGED <<db, dirs, _instances, engines, clock, nextGroupId, nextMsgId, deleted>>

\* The statements of the try block were executed; the finally clause follows.
execute(p) ==
    /\ pc[p] = "execute"
    /\ Goto(p, "close")
    /\ UNCHANGED <<frame, db, dirs, _instances, engines, clock, nextGroupId, nextMsgId,
                   deleted>>

\* A statement of the try block raised; the finally clause follows.
execute_raises(p) ==
    /\ pc[p] = "execute"
    /\ \E e \in DatabaseErrors : frame' = [frame EXCEPT ![p].raised = e]
    /\ Goto(p, "close")
    /\ UNCHANGED <<db, dirs, _instances, engines, clock, nextGroupId, nextMsgId, deleted>>

\* A bug that closes the connection at the end of the try block, not in a
\* finally clause.
close_at_end_of_try(p) ==
    /\ pc[p] = "close"
    /\ frame' = [frame EXCEPT ![p].connections =
                                IF frame[p].raised = "none" THEN @ - 1 ELSE @]
    /\ Goto(p, "closed")
    /\ UNCHANGED <<db, dirs, _instances, engines, clock, nextGroupId, nextMsgId, deleted>>

\* finally: await db.close()
close(p) ==
    /\ pc[p] = "close"
    /\ frame' = [frame EXCEPT ![p].connections = @ - 1]
    /\ Goto(p, "closed")
    /\ UNCHANGED <<db, dirs, _instances, engines, clock, nextGroupId, nextMsgId, deleted>>

\* After the finally clause: the exception goes on to the caller, or the
\* operation goes on with its next block.
closed(p) ==
    /\ pc[p] = "closed"
    /\ IF frame[p].raised # "none"
       THEN Finish(p, frame[p].raised, NoEngine)
       ELSE NextBlock(p)
    /\ UNCHANGED <<db, dirs, _instances, engines, clock, nextGroupId, nextMsgId, deleted>>

\* The awaited engine call returned.
engine_returns(p) ==
    /\ pc[p] = "await_engine"
    /\ NextBlock(p)
    /\ UNCHANGED <<db, dirs, _instances, engines, clock, nextGroupId, nextMsgId, deleted>>

\* The awaited engine call raised.
engine_raises(p) ==
    /\ pc[p] = "await_engine"
    /\ Finish(p, "LightRAGNotReadyError", NoEngine)
    /\ UNCHANGED <<db, dirs, _instances, engines, clock, nextGroupId, nextMsgId, deleted>>

\* The stream is exhausted after the chunks yielded.
yield_exhausted(p) ==
    /\ pc[p] = "await_yield"
    /\ NextBlock(p)
    /\ UNCHANGED <<db, dirs, _instances, engines, clock, nextGroupId, nextMsgId, deleted>>

\* The consumer closed the generator at a yield.
yield_closed(p) ==
    /\ pc[p] = "await_yield"
    /\ Finish(p, "Cancelled", NoEngine)
    /\ UNCHANGED <<db, dirs, _instances, engines, clock, nextGroupId, nextMsgId, deleted>>

NextConnections ==
    \E p \in Procs :
        \/ connections_call(p)
        \/ get_connection(p)
        \/ get_connection_fails(p)
        \/ execute(p)
        \/ execute_raises(p)
        \/ close(p)
        \/ closed(p)
        \/ engine_returns(p)
        \/ engine_raises(p)
        \/ yield_exhausted(p)
        \/ yield_closed(p)

\* The service after start-up: empty tables, no directory, empty cache.
Init ==
    /\ groups = <<>>
    /\ conversations = <<>>
    /\ messages = <<>>
    /\ documents = <<>>
    /\ dirs = {}
    /\ _instances = [g \in GroupIds |-> NoEngine]
    /\ engines = <<>>
    /\ clock = 0
    /\ nextGroupId = 1
    /\ nextMsgId = 1
    /\ deleted = {}
    /\ InitProcs

create_group_steps(p) ==
    \/ create_group(p)
    \/ create_group_insert(p)
    \/ create_group_mkdir(p)
    \/ create_group_select(p)

delete_group_steps(p) ==
    \/ delete_group(p)
    \/ delete_group_delete(p)
    \/ delete_group_rmtree(p)

update_group_steps(p) ==
    \/ update_group(p)
    \/ update_group_dup(p)
    \/ update_group_update(p)
    \/ update_group_get(p)

LifecycleSteps(p) ==
    \/ create_group_steps(p)
    \/ create_group_mkdir_fails(p)
    \/ delete_group_steps(p)
    \/ delete_group_rmtree_fails(p)
    \/ get_group(p)
    \/ get_instance(p)
    \/ initialize_storages(p)

\* Group life cycle with the registry: create, delete (the file system may
\* fail), and the reads get_group and get_instance.
Next ==
    \E p \in Procs :
        \/ create_group_call(p)
        \/ delete_group_call(p)
        \/ get_group_call(p)
        \/ get_instance_call(p)
        \/ LifecycleSteps(p)

Spec == Init /\ [][Next]_vars

\* The same, one request at a time: a request starts when no other is in flight.
call_serial(p) ==
    /\ \A q \in Procs : pc[q] = "idle"
    /\ \/ create_group_call(p)
       \/ delete_group_call(p)
       \/ get_group_call(p)
       \/ get_instance_call(p)

NextSerial ==
    \E p \in Procs :
        \/ call_serial(p)
        \/ LifecycleSteps(p)

SpecSerial == Init /\ [][NextSerial]_vars

\* The groups table under create, update and delete.
NextGroups ==
    \E p \in Procs :
        \/ create_group_call(p)
        \/ create_group_steps(p)
        \/ update_group_call(p)
        \/ update_group_steps(p)
        \/ delete_group_call(p)
        \/ delete_group_steps(p)

SpecGroups == Init /\ [][NextGroups]_vars

\* Each request is one create_group call.
create_group_once(p) ==
    /\ result[p] = NoResult
    /\ create_group_call(p)

NextCreate ==
    \E p \in Procs :
        \/ create_group_once(p)
        \/ create_group_steps(p)

SpecCreate == Init /\ [][NextCreate]_vars

ConversationRow(g, now) ==
    [group_id |-> g, title |-> "New Conversation", created_at |-> now, updated_at |-> now]

\* Chat turns on one conversation of one group: group 1 was created (its
\* directory may be missing), conversation 1 was created in it, no message
\* yet, no engine built.
InitChat ==
    /\ groups = [g \in {1} |-> GroupRow(NameList[1], "", 0)]
    /\ conversations = [c \in {1} |-> ConversationRow(1, 0)]
    /\ messages = <<>>
    /\ documents = <<>>
    /\ dirs \in {{}, {1}}
    /\ _instances = [g \in GroupIds |-> NoEngine]
    /\ engines = <<>>
    /\ clock = 0
    /\ nextGroupId = 2
    /\ nextMsgId = 1
    /\ deleted = {}
    /\ InitProcs

chat_steps(p) ==
    \/ chat(p)
    \/ chat_conversation(p)
    \/ chat_user_message(p)
    \/ chat_history(p)
    \/ aquery(p)
    \/ stream_next(p)
    \/ stream_end(p)
    \/ stream_resume(p)
    \/ chat_assistant_message(p)
    \/ chat_response(p)

chat_failures(p) ==
    \/ chat_history_fails(p)
    \/ aquery_fails(p)
    \/ stream_fails(p)
    \/ stream_cancel(p)
    \/ chat_assistant_message_fails(p)

\* One chat turn at a time: the turns are the successive calls of request 1.
chat_call_serial(p) ==
    /\ p = 1
    /\ chat_call(p)

NextChat ==
    \/ Tick
    \/ \E p \in Procs :
        \/ chat_call_serial(p)
        \/ chat_steps(p)
        \/ chat_failures(p)
        \/ get_instance(p)
        \/ get_instance_construct_fails(p)
        \/ initialize_storages(p)
        \/ initialize_storages_fails(p)

SpecChat == InitChat /\ [][NextChat]_vars

\* Each request is one chat or chat_stream call; the calls interleave.
chat_once(p) ==
    /\ result[p] = NoResult
    /\ chat_call(p)

NextTurns ==
    \/ Tick
    \/ \E p \in Procs :
        \/ chat_once(p)
        \/ chat_steps(p)
        \/ chat_failures(p)
        \/ get_instance(p)
        \/ get_instance_construct_fails(p)
        \/ initialize_storages(p)
        \/ initialize_storages_fails(p)

SpecTurns == InitChat /\ [][NextTurns]_vars

\* The query endpoints and the streaming chat endpoint: group 1 was created
\* and holds conversation 1; the other group ids have no row, and a storage
\* directory of theirs may be left over from a delete_group whose rmtree
\* raised.
InitQuery ==
    /\ groups = [g \in {1} |-> GroupRow(NameList[1], "", 0)]
    /\ conversations = [c \in {1} |-> ConversationRow(1, 0)]
    /\ messages = <<>>
    /\ documents = <<>>
    /\ dirs \in SUBSET GroupIds
    /\ _instances = [g \in GroupIds |-> NoEngine]
    /\ engines = <<>>
    /\ clock = 0
    /\ nextGroupId = MaxGroups + 1
    /\ nextMsgId = 1
    /\ deleted = {}
    /\ InitProcs

\* Each request is one call of query_group, query_group_stream or chat_stream.
query_once(p) ==
    /\ result[p] = NoResult
    /\ query_call(p)

chat_stream_once(p) ==
    /\ result[p] = NoResult
    /\ chat_call(p)
    /\ frame'[p].op = "chat_stream"

chat_stream_steps(p) ==
    \/ chat(p)
    \/ chat_conversation(p)
    \/ chat_user_message(p)
    \/ chat_history(p)
    \/ aquery(p)
    \/ stream_next(p)
    \/ stream_end(p)
    \/ stream_resume(p)
    \/ chat_assistant_message(p)

NextQuery ==
    \E p \in Procs :
        \/ query_once(p)
        \/ query_group(p)
        \/ query_aquery(p)
        \/ chat_stream_once(p)
        \/ chat_stream_steps(p)
        \/ chat_failures(p)
        \/ get_instance(p)
        \/ get_instance_construct_fails(p)
        \/ initialize_storages(p)
        \/ initialize_storages_fails(p)

SpecQuery == InitQuery /\ [][NextQuery]_vars

\* main.py lines 10-12: the application's lifespan context manager, which is
\* suspended at its yield while the application serves requests.  At
\* shutdown it is resumed and runs the code after the yield: there is none.
lifespan(p) ==
    /\ pc[p] = "lifespan"
    /\ \A q \in Procs \ {p} : pc[q] = "idle"
    /\ Finish(p, "ok", NoEngine)
    /\ UNCHANGED <<db, dirs, _instances, engines, clock, nextGroupId, nextMsgId, deleted>>

\* The application is up: request 1 is the lifespan, suspended at its yield.
InitShutdown ==
    /\ \E D \in SUBSET GroupIds :
        /\ groups = [g \in D |-> GroupRow(NameList[g], "", 0)]
        /\ dirs = D
    /\ conversations = <<>>
    /\ messages = <<>>
    /\ documents = <<>>
    /\ _instances = [g \in GroupIds |-> NoEngine]
    /\ engines = <<>>
    /\ clock = 0
    /\ nextGroupId = MaxGroups + 1
    /\ nextMsgId = 1
    /\ deleted = {}
    /\ pc = [p \in Procs |-> IF p = 1 THEN "lifespan" ELSE "idle"]
    /\ frame = [p \in Procs |-> IF p = 1 THEN [NoFrame EXCEPT !.op = "lifespan"]
                                          ELSE NoFrame]
    /\ result = [p \in Procs |-> NoResult]

\* Requests are served while the lifespan is suspended at its yield.
get_instance_serving(p) ==
    /\ \E q \in Procs : pc[q] = "lifespan"
    /\ get_instance_call(p)

NextShutdown ==
    \E p \in Procs :
        \/ lifespan(p)
        \/ get_instance_serving(p)
        \/ get_instance(p)
        \/ get_instance_construct_fails(p)
        \/ initialize_storages(p)
        \/ initialize_storages_fails(p)

SpecShutdown == InitShutdown /\ [][NextShutdown]_vars

\* Two tenants: groups 1 and 2 were created with their directories,
\* conversation 1 in group 1 and conversation 2 in group 2; no message, no
\* document, no engine yet.
InitOwners ==
    /\ groups = [g \in {1, 2} |-> GroupRow(NameList[g], "", 0)]
    /\ conversations = [c \in {1, 2} |-> ConversationRow(c, 0)]
    /\ messages = <<>>
    /\ documents = <<>>
    /\ dirs = {1, 2}
    /\ _instances = [g \in GroupIds |-> NoEngine]
    /\ engines = <<>>
    /\ clock = 0
    /\ nextGroupId = MaxGroups + 1
    /\ nextMsgId = 1
    /\ deleted = {}
    /\ InitProcs

\* Each request is one call: a chat turn, a document insert, a conversation
\* delete or a group delete; the calls interleave.
owner_once(p) ==
    /\ result[p] = NoResult
    /\ \/ chat_call(p)
       \/ insert_document_call(p)
       \/ delete_group_call(p)
       \/ conversation_call(p) /\ frame'[p].op = "delete_conversation"

insert_document_steps(p) ==
    \/ insert_document(p)
    \/ ainsert(p)
    \/ insert_document_insert(p)
    \/ insert_document_select(p)

delete_conversation_steps(p) ==
    \/ delete_conversation(p)
    \/ delete_conversation_row(p)
    \/ delete_conversation_delete(p)

NextOwners ==
    \E p \in Procs :
        \/ owner_once(p)
        \/ chat_steps(p)
        \/ insert_document_steps(p)
        \/ ainsert_fails(p)
        \/ delete_conversation_steps(p)
        \/ delete_group_steps(p)
        \/ get_instance(p)
        \/ initialize_storages(p)

SpecOwners == InitOwners /\ [][NextOwners]_vars

\* Each request is one call on a conversation: chat, chat_stream,
\* get_conversation_history or delete_conversation, with any group id and any
\* conversation id.
conversation_once(p) ==
    /\ result[p] = NoResult
    /\ \/ chat_call(p)
       \/ conversation_call(p)

get_conversation_history_steps(p) ==
    \/ get_conversation_history(p)
    \/ get_conversation_history_row(p)
    \/ get_conversation_history_count(p)
    \/ get_conversation_history_select(p)

NextConversations ==
    \E p \in Procs :
        \/ conversation_once(p)
        \/ chat_steps(p)
        \/ get_conversation_history_steps(p)
        \/ delete_conversation_steps(p)
        \/ get_instance(p)
        \/ initialize_storages(p)

SpecConversations == InitOwners /\ [][NextConversations]_vars

\* Reading a conversation while it grows.  The process was restarted after a
\* turn on conversation 1 that took less than a second: its two rows are in
\* the table with the same created_at, and no engine is cached.
InitHistory ==
    /\ groups = [g \in {1} |-> GroupRow(NameList[1], "", 0)]
    /\ conversations = [c \in {1} |-> ConversationRow(1, 0)]
    /\ messages = <<[id |-> 1, conversation_id |-> 1, role |-> "user",
                     content |-> <<"h", "i">>, query_mode |-> "<None>", created_at |-> 0],
                   [id |-> 2, conversation_id |-> 1, role |-> "assistant",
                     content |-> <<"a", "b">>, query_mode |-> "mix", created_at |-> 0]>>
    /\ documents = <<>>
    /\ dirs = {1}
    /\ _instances = [g \in GroupIds |-> NoEngine]
    /\ engines = <<>>
    /\ clock = 0
    /\ nextGroupId = 2
    /\ nextMsgId = 3
    /\ deleted = {}
    /\ InitProcs

\* Request 1 is one chat or chat_stream call, request 2 one call of
\* get_conversation_history at any moment of it, and seconds pass.
history_once(p) ==
    /\ result[p] = NoResult
    /\ \/ p = 1 /\ chat_call(p)
       \/ p # 1 /\ conversation_call(p) /\ frame'[p].op = "get_conversation_history"

NextHistory ==
    \/ Tick
    \/ \E p \in Procs :
        \/ history_once(p)
        \/ chat_steps(p)
        \/ get_conversation_history_steps(p)
        \/ get_instance(p)
        \/ initialize_storages(p)

SpecHistory == InitHistory /\ [][NextHistory]_vars

\* Deleting one of a tenant's conversations.  The process was restarted:
\* group 1 has conversations 1 and 2, conversation 1 holds a turn and
\* conversation 2 the user message of a turn whose engine call failed; no
\* engine is cached.  Each request is one call on a conversation.
InitDelete ==
    /\ groups = [g \in {1} |-> GroupRow(NameList[1], "", 0)]
    /\ conversations = [c \in {1, 2} |-> ConversationRow(1, 0)]
    /\ messages = <<[id |-> 1, conversation_id |-> 1, role |-> "user",
                     content |-> <<"h", "i">>, query_mode |-> "<None>", created_at |-> 0],
                   [id |-> 2, conversation_id |-> 1, role |-> "assistant",
                     content |-> <<"a", "b">>, query_mode |-> "mix", created_at |-> 0],
                   [id |-> 3, conversation_id |-> 2, role |-> "user",
                     content |-> <<"h", "i">>, query_mode |-> "<None>", created_at |-> 0]>>
    /\ documents = <<>>
    /\ dirs = {1}
    /\ _instances = [g \in GroupIds |-> NoEngine]
    /\ engines = <<>>
    /\ clock = 0
    /\ nextGroupId = 2
    /\ nextMsgId = 4
    /\ deleted = {}
    /\ InitProcs

SpecDelete == InitDelete /\ [][NextConversations]_vars

\* The connections of requests that call the engine, over two tenants.
SpecConnections == InitOwners /\ [][NextConnections]_vars

\* A turn on a conversation with a past.  Conversation 1 of group 1 holds up
\* to MaxHistory messages: each assistant message has its user message
\* before it, user messages of failed turns have none after them, the rows
\* up to some position were written in second 0 and the others in second 1.
PastRoles(n) ==
    {roles \in [1..n -> {"user", "assistant"}] :
        \A i \in 1..n :
            Cardinality({j \in 1..i : roles[j] = "assistant"})
                <= Cardinality({j \in 1..i : roles[j] = "user"})}

PastMessage(i, role, now) ==
    [id |-> i, conversation_id |-> 1, role |-> role,
     content |-> IF role = "user" THEN <<"h", "e", "l", "l", "o">> ELSE <<"a", "b">>,
     query_mode |-> IF role = "user" THEN "<None>" ELSE "mix",
     created_at |-> now]

InitRecent ==
    /\ groups = [g \in {1} |-> GroupRow(NameList[1], "", 0)]
    /\ conversations = [c \in {1} |-> ConversationRow(1, 0)]
    /\ \E n \in 0..MaxHistory : \E roles \in PastRoles(n) : \E k \in 0..n :
        /\ messages = [i \in 1..n |-> PastMessage(i, roles[i], IF i <= k THEN 0 ELSE 1)]
        /\ nextMsgId = n + 1
        /\ clock \in (IF k < n THEN 1 ELSE 0)..MaxClock
    /\ documents = <<>>
    /\ dirs = {1}
    /\ _instances = [g \in GroupIds |-> NoEngine]
    /\ engines = <<>>
    /\ nextGroupId = 2
    /\ deleted = {}
    /\ InitProcs

\* Request 1 makes one chat or chat_stream call, up to the history it hands
\* to the engine; no other request writes.
recent_once(p) ==
    /\ p = 1
    /\ result[p] = NoResult
    /\ chat_call(p)

NextRecent ==
    \E p \in Procs :
        \/ recent_once(p)
        \/ chat(p)
        \/ chat_conversation(p)
        \/ chat_user_message_within(p, MaxHistory + 1)
        \/ chat_history(p)

SpecRecent == InitRecent /\ [][NextRecent]_vars

\* The documents of two tenants: requests insert and list documents, one call
\* after another, interleaved with the calls of the other request.
NextDocuments ==
    \E p \in Procs :
        \/ insert_document_call(p)
        \/ insert_document_steps(p)
        \/ list_documents_call(p)
        \/ list_documents(p)
        \/ list_documents_select(p)
        \/ get_instance(p)
        \/ initialize_storages(p)

SpecDocuments == InitOwners /\ [][NextDocuments]_vars

\* Document inserts with an engine that can fail: some groups exist, each
\* with its directory; each request is one insert_document call;
\* construction, storage initialization and the engine's insert may raise.
insert_once(p) ==
    /\ result[p] = NoResult
    /\ insert_document_call(p)

NextInsert ==
    \E p \in Procs :
        \/ insert_once(p)
        \/ insert_document_steps(p)
        \/ ainsert_fails(p)
        \/ get_instance(p)
        \/ get_instance_construct_fails(p)
        \/ initialize_storages(p)
        \/ initialize_storages_fails(p)

SpecInsert == InitRegistry /\ [][NextInsert]_vars

\* ------------------------------------------------------- registry claims
EngineIds == 1..Len(engines)

\* Engines of group g that are being initialized or are the cached handle.
Constructions(g) ==
    {h \in EngineIds :
        /\ engines[h].group_id = g
        /\ \/ engines[h].state = "constructed"
           \/ _instances[g] = h}

\* C1: concurrent get_instance calls for one uncached group with a storage
\* directory lead to a single engine construction: never are two engines of
\* the same group under construction or cached at once.
C1_SingleConstruction ==
    \A g \in GroupIds : Cardinality(Constructions(g)) <= 1

\* The step in which request p leaves position at.
Leaves(p, at) == pc[p] = at /\ pc'[p] # at

Fails(p) ==
    /\ frame[p].op = "get_instance"
    /\ pc[p] \in {"get_instance", "initialize_storages"}
    /\ pc'[p] = "idle"
    /\ result'[p].outcome = "LightRAGNotReadyError"

\* C2: when construction or storage initialization fails in get_instance the
\* caller gets LightRAGNotReadyError, the failing call leaves no entry in the
\* cache (a group uncached before the failure is uncached after it, and a
\* failed engine is never a cached handle), and the next get_instance of that
\* group builds a new engine, not the failed one.
C2_FailureNotCached ==
    [][/\ \A p \in Procs :
            /\ (/\ frame[p].op = "get_instance"
                /\ Leaves(p, "initialize_storages")
                /\ engines'[frame[p].rag].state = "failed")
               => result'[p].outcome = "LightRAGNotReadyError"
            /\ Fails(p) =>
                /\ _instances' = _instances
                /\ ~Cached(frame[p].group_id) => _instances'[frame[p].group_id] = NoEngine
            /\ (Leaves(p, "get_instance") /\ pc'[p] = "initialize_storages") =>
                /\ frame'[p].rag \notin EngineIds
                /\ engines'[frame'[p].rag].state = "constructed"
       /\ \A g \in GroupIds :
            _instances'[g] # NoEngine => engines'[_instances'[g]].state = "initialized"
      ]_vars

\* A request whose first get_instance failed and whose later get_instance of
\* the same group returned a new, initialized engine; no other request ran.
C2_RetrySucceeded ==
    \E p \in Procs : \E h \in EngineIds :
        /\ result[p].op = "get_instance"
        /\ result[p].outcome = "ok"
        /\ engines[h].state = "failed"
        /\ engines[h].group_id = result[p].group_id
        /\ result[p].rag > h
        /\ _instances[result[p].group_id] = result[p].rag
        /\ \A q \in Procs \ {p} : pc[q] = "idle" /\ result[q] = NoResult

\* C3: get_instance of a group with no cached handle and no storage directory
\* raises GroupNotFoundError, constructs nothing and leaves the cache as it
\* is; with a cached handle it returns that handle and constructs nothing.
C3_MissingDirOrCached ==
    [][\A p \in Procs :
        (frame[p].op = "get_instance" /\ Leaves(p, "get_instance")) =>
            LET g == frame[p].group_id IN
            /\ (~Cached(g) /\ g \notin dirs) =>
                /\ result'[p].outcome = "GroupNotFoundError"
                /\ engines' = engines
                /\ _instances' = _instances
            /\ Cached(g) =>
                /\ result'[p].outcome = "ok"
                /\ result'[p].rag = _instances[g]
                /\ engines' = engines
                /\ _instances' = _instances
      ]_vars

\* One request was refused for a group without a directory and nothing was
\* built for that group, while another request holds the cached handle.
C3_RefusedAndCached ==
    \E p, q \in Procs :
        /\ result[p].op = "get_instance"
        /\ result[p].outcome = "GroupNotFoundError"
        /\ result[p].group_id \notin dirs
        /\ \A h \in EngineIds : engines[h].group_id # result[p].group_id
        /\ result[q].op = "get_instance"
        /\ result[q].outcome = "ok"
        /\ result[q].rag = _instances[result[q].group_id]
        /\ Len(engines) = 1

\* --------------------------------------------------------- group claims
Reads == {"get_group", "get_instance"}

\* C4: once delete_group has returned for a group, every later read of that
\* group id raises GroupNotFoundError, a later get_instance included, also
\* when an engine of the group was cached before the delete.
C4_ReadsAfterDelete ==
    \A p \in Procs :
        (result[p].op \in Reads /\ result[p].after_delete)
            => result[p].outcome = "GroupNotFoundError"

\* C5: when delete_group returns normally the group's row (with its
\* documents, conversations and messages), its storage directory and its
\* cached engine are gone, and the engine that was cached has been finalized.
C5_DeleteRemovesAll ==
    [][\A p \in Procs :
        (Leaves(p, "delete_group_rmtree") /\ result'[p].outcome = "ok") =>
            LET g == frame[p].group_id IN
            /\ g \notin DOMAIN groups'
            /\ \A c \in DOMAIN conversations' : conversations'[c].group_id # g
            /\ \A i \in 1..Len(documents') : documents'[i].group_id # g
            /\ g \notin dirs'
            /\ _instances'[g] = NoEngine
            /\ \A h \in EngineIds :
                (engines[h].group_id = g /\ engines[h].state = "initialized")
                    => engines'[h].finalize_calls > 0
      ]_vars

\* C6: the row is deleted and committed before the directory removal is
\* attempted, and a failure of that removal neither fails delete_group for
\* its caller nor brings the row back.
C6_TeardownFailureTolerated ==
    [][\A p \in Procs :
        Leaves(p, "delete_group_rmtree") =>
            /\ frame[p].group_id \notin DOMAIN groups
            /\ result'[p].outcome = "ok"
            /\ frame[p].group_id \notin DOMAIN groups'
      ]_vars

\* Requests whose create_group call for name has completed.
Created(name) ==
    {p \in Procs : result[p].op = "create_group" /\ result[p].name = name}

\* C7: of the create_group calls made with one name, sequential or
\* interleaved, exactly one succeeds and every other one raises
\* GroupAlreadyExistsError; no call ends in another error.
C7_OneCreateWins ==
    \A name \in Names :
        /\ \A p \in Created(name) :
            result[p].outcome \in {"ok", "GroupAlreadyExistsError"}
        /\ Cardinality(Created(name)) >= 2 =>
            Cardinality({p \in Created(name) : result[p].outcome = "ok"}) = 1

\* C8: no two rows of groups have the same name.
C8_UniqueNames ==
    \A g, h \in DOMAIN groups : groups[g].name = groups[h].name => g = h

\* Two groups exist and the UNIQUE constraint has refused a statement.
C8_ConstraintRefused ==
    /\ Cardinality(DOMAIN groups) = 2
    /\ \E p \in Procs : result[p].outcome = "IntegrityError"

UserPersisted ==
    {"chat_history", "get_instance", "initialize_storages", "aquery", "stream_next",
     "stream_yield", "chat_assistant_message"}

\* C10: when a chat or chat_stream turn fails after its user message was
\* committed and before its assistant message is (history read, get_instance
\* raising LightRAGNotReadyError or GroupNotFoundError, the engine call, the
\* stream), the failure writes nothing: the user message is still the last
\* row of messages and no assistant message of the turn exists.  Every turn
\* that reaches the insert appends one user message under a new id, whatever
\* the conversation already holds.
C10_FailedTurnKeepsUserMessage ==
    [][\A p \in Procs :
        frame[p].op \in ChatOps =>
            /\ (/\ pc[p] \in UserPersisted
                /\ pc'[p] = "idle"
                /\ result'[p].outcome # "ok") =>
                    /\ messages' = messages
                    /\ conversations' = conversations
                    /\ messages'[Len(messages')] =
                            [id |-> frame[p].user_msg_id,
                             conversation_id |-> frame[p].conversation_id,
                             role |-> "user", content |-> frame[p].message,
                             query_mode |-> "<None>",
                             created_at |-> messages[Len(messages)].created_at]
                    /\ \A i \in 1..Len(messages') :
                            messages'[i].id # frame[p].assistant_msg_id
            /\ (Leaves(p, "chat_user_message") /\ pc'[p] = "chat_history") =>
                    /\ Len(messages') = Len(messages) + 1
                    /\ SubSeq(messages', 1, Len(messages)) = messages
                    /\ messages'[Len(messages')].id = frame[p].user_msg_id
                    /\ messages'[Len(messages')].role = "user"
                    /\ frame[p].user_msg_id \notin MessageIds
      ]_vars

\* A turn failed with LightRAGNotReadyError after an earlier turn with the
\* same text had failed too: the conversation holds both user messages and
\* no assistant message.
C10_RetriedAfterFailure ==
    \E p \in Procs :
        /\ result[p].op \in ChatOps
        /\ result[p].outcome = "LightRAGNotReadyError"
        /\ Len(messages) = 2
        /\ messages[2].id = result[p].user_msg_id
        /\ messages[1].id # messages[2].id
        /\ \A i \in 1..2 :
            /\ messages[i].role = "user"
            /\ messages[i].conversation_id = result[p].conversation_id
        /\ messages[1].content = messages[2].content

\* The positions in messages of the rows with the given id.
RowsOf(id) == {i \in 1..Len(messages) : messages[i].id = id}

\* Request p took the step.
Steps(p) == pc'[p] # pc[p]

\* C11: every successful chat or chat_stream call appends exactly two rows to
\* its conversation, the user row and later the assistant row, whose
\* query_mode is the mode of the request; no other step of a turn writes a
\* message, also when the turns of several calls on the conversation
\* interleave.
C11_TwoMessagesPerTurn ==
    /\ [][\A p \in Procs :
            (Steps(p) /\ frame[p].op \in ChatOps) =>
                LET f == frame[p] IN
                IF Leaves(p, "chat_user_message") /\ pc'[p] = "chat_history"
                THEN /\ Len(messages') = Len(messages) + 1
                     /\ SubSeq(messages', 1, Len(messages)) = messages
                     /\ messages'[Len(messages')].id = f.user_msg_id
                     /\ messages'[Len(messages')].role = "user"
                     /\ messages'[Len(messages')].conversation_id = f.conversation_id
                     /\ messages'[Len(messages')].content = f.message
                ELSE IF Leaves(p, "chat_assistant_message") /\ messages' # messages
                THEN /\ Len(messages') = Len(messages) + 1
                     /\ SubSeq(messages', 1, Len(messages)) = messages
                     /\ messages'[Len(messages')].id = f.assistant_msg_id
                     /\ messages'[Len(messages')].role = "assistant"
                     /\ messages'[Len(messages')].conversation_id = f.conversation_id
                     /\ messages'[Len(messages')].query_mode = f.mode
                     /\ RowsOf(f.user_msg_id) # {}
                ELSE messages' = messages
        ]_vars
    /\ [](\A p \in Procs :
            (result[p].op \in ChatOps /\ result[p].outcome = "ok") =>
                /\ Cardinality(RowsOf(result[p].user_msg_id)) = 1
                /\ Cardinality(RowsOf(result[p].assistant_msg_id)) = 1
                /\ result[p].user_msg_id # result[p].assistant_msg_id
                /\ \A i \in RowsOf(result[p].user_msg_id) :
                   \A j \in RowsOf(result[p].assistant_msg_id) :
                        /\ i < j
                        /\ messages[i].role = "user"
                        /\ messages[j].role = "assistant"
                        /\ messages[j].query_mode = result[p].mode
                        /\ messages[i].created_at <= messages[j].created_at
                        /\ messages[i].conversation_id = result[p].conversation_id
                        /\ messages[j].conversation_id = result[p].conversation_id)

\* Two calls on one conversation, a chat and a chat_stream with different
\* modes, both succeeded with their turns interleaved: user, user, assistant,
\* assistant.
C11_InterleavedTurns ==
    /\ Len(messages) = 4
    /\ messages[1].role = "user" /\ messages[2].role = "user"
    /\ messages[3].role = "assistant" /\ messages[4].role = "assistant"
    /\ \A p \in Procs : result[p].outcome = "ok" /\ result[p].conversation_id = 1
    /\ result[1].op = "chat" /\ result[2].op = "chat_stream"
    /\ result[1].mode # result[2].mode

\* The last max_turns * 2 rows of conversation c in the order they were
\* created, as role and content.
RecentInCreationOrder(c) ==
    LET rows == ConversationMessages(c)
        n == Len(rows)
        k == Min(n, max_turns * 2)
    IN [i \in 1..k |-> [role |-> rows[n - k + i].role,
                        content |-> rows[n - k + i].content]]

\* C12: the history a turn hands to the engine is the at most 10 most recent
\* messages of its conversation with their roles, oldest first in the order
\* they were created, also when messages have the same created_at.
C12_HistoryInCreationOrder ==
    [][\A p \in Procs :
        (Leaves(p, "chat_history") /\ pc'[p] = "get_instance") =>
            frame'[p].history = RecentInCreationOrder(frame[p].conversation_id)
      ]_vars

\* The number of rows of conversation c in msgs.
CountOf(msgs, c) == Len(SelectSeq(msgs, LAMBDA m : m.conversation_id = c))

\* The step in which the chat_stream turn of request p stops inside the
\* chunk loop: the consumer is gone or the engine's iterator raised.
StopsMidStream(p) ==
    /\ frame[p].op = "chat_stream"
    /\ pc[p] \in {"stream_next", "stream_yield"}
    /\ pc'[p] = "idle"
    /\ result'[p].outcome # "ok"

\* C13: a chat_stream call canceled after some chunks and before the stream
\* is exhausted leaves its conversation with as many messages as it had when
\* the call was made.
C13_CancelKeepsCount ==
    [][\A p \in Procs :
        (StopsMidStream(p) /\ result'[p].outcome = "Cancelled") =>
            CountOf(messages', frame[p].conversation_id) = frame[p].n_before
      ]_vars

\* C14: when a chat_stream turn is canceled or the engine's iterator raises
\* after chunks were forwarded, nothing is written: no assistant id was
\* drawn, the turn's user message stays the last row, and the conversation's
\* updated_at is the one it had; only the assistant INSERT of a turn changes
\* updated_at.
C14_NoPartialAssistant ==
    /\ [][\A p \in Procs :
            /\ StopsMidStream(p) =>
                /\ messages' = messages
                /\ conversations' = conversations
                /\ frame[p].assistant_msg_id = NoId
            /\ (Steps(p) /\ frame[p].op = "chat_stream"
                    /\ ~Leaves(p, "chat_assistant_message")) =>
                conversations' = conversations
        ]_vars
    /\ [](\A p \in Procs :
            (/\ result[p].op = "chat_stream"
             /\ result[p].outcome \in {"Cancelled", "EngineError"}) =>
                /\ result[p].assistant_msg_id = NoId
                /\ messages[Len(messages)].id = result[p].user_msg_id
                /\ messages[Len(messages)].role = "user")

\* A second after the conversation was created a chat_stream turn was
\* canceled with a chunk forwarded: updated_at is still the creation time.
C14_CancelledAfterChunk ==
    \E p \in Procs :
        /\ result[p].op = "chat_stream"
        /\ result[p].outcome = "Cancelled"
        /\ Len(result[p].events) >= 1
        /\ result[p].events[1].event = "chunk"
        /\ clock = 1
        /\ messages[Len(messages)].created_at = 1
        /\ conversations[result[p].conversation_id].updated_at = 0

\* The concatenation of the data of the chunk events of an event sequence.
RECURSIVE ForwardedText(_)
ForwardedText(events) ==
    IF events = <<>> THEN <<>>
    ELSE IF Head(events).event = "chunk"
         THEN Head(events).data \o ForwardedText(Tail(events))
         ELSE ForwardedText(Tail(events))

\* C15: chat_stream writes its assistant message only in the step after the
\* engine's iterator is exhausted, and the content of that row is the
\* concatenation, in order, of the chunks that were forwarded as chunk
\* events.
C15_AssistantIsForwardedText ==
    [][\A p \in Procs :
        (Steps(p) /\ frame[p].op = "chat_stream") =>
            /\ pc'[p] = "chat_assistant_message" => pc[p] = "stream_next"
            /\ (messages' # messages /\ ~Leaves(p, "chat_user_message")) =>
                /\ Leaves(p, "chat_assistant_message")
                /\ messages'[Len(messages')].id = frame[p].assistant_msg_id
                /\ messages'[Len(messages')].role = "assistant"
                /\ messages'[Len(messages')].content = ForwardedText(frame[p].events)
                /\ messages'[Len(messages')].content = ForwardedText(result'[p].events)
      ]_vars

\* A chat_stream turn forwarded the chunks a and b, in this order, and ended
\* with done; the assistant row holds "ab".
C15_StreamPersisted ==
    \E p \in Procs :
        /\ result[p].op = "chat_stream"
        /\ result[p].outcome = "ok"
        /\ result[p].events = <<ChunkEvent(<<"a">>), ChunkEvent(<<"b">>),
                                DoneEvent(result[p].mode)>>
        /\ messages[Len(messages)].id = result[p].assistant_msg_id
        /\ messages[Len(messages)].content = <<"a", "b">>

\* ------------------------------------------------- SSE and query claims
Terminal == {"done", "error"}

\* The event sequences of the streams in flight and of the finished ones.
EventStreams ==
    {frame[p].events : p \in Procs} \cup {result[p].events : p \in Procs}

\* C16: no SSE stream of the query or chat streaming endpoint holds both a
\* done and an error event, and none holds a chunk event after a done or an
\* error event.
C16_TerminalEventIsLast ==
    \A events \in EventStreams :
        /\ ~(\E i, j \in 1..Len(events) :
                events[i].event = "done" /\ events[j].event = "error")
        /\ \A i, j \in 1..Len(events) :
                (i < j /\ events[i].event \in Terminal) => events[j].event # "chunk"

\* A chat stream ended with done after two chunks and a query stream ended
\* with an error event.
C16_DoneAndErrorStreams ==
    \E p, q \in Procs :
        /\ result[p].op = "chat_stream"
        /\ Len(result[p].events) = 3
        /\ result[p].events[3].event = "done"
        /\ result[q].op = "query_group_stream"
        /\ Len(result[q].events) = 1
        /\ result[q].events[1].event = "error"

\* C17: every SSE stream the client did not cancel ends with exactly one
\* terminal event, done when the chunk sequence was exhausted and error when
\* it raised, whatever it raised.
C17_OneTerminalEvent ==
    \A p \in Procs :
        (result[p].op \in StreamOps /\ result[p].outcome # "Cancelled") =>
            LET events == result[p].events IN
            /\ Len(events) >= 1
            /\ events[Len(events)].event =
                    (IF result[p].outcome = "ok" THEN "done" ELSE "error")
            /\ \A i \in 1..(Len(events) - 1) : events[i].event = "chunk"

\* C18: query_group and query_group_stream look the group up first: for an
\* id without a row they raise GroupNotFoundError and never get to
\* get_instance, so no engine is constructed and the cache is unchanged, also
\* when a storage directory of that id exists.
C18_VerifiedBeforeRegistry ==
    [][\A p \in Procs :
        (frame[p].op \in QueryOps /\ Steps(p)) =>
            /\ (Leaves(p, "query_group") /\ ~Exists(frame[p].group_id)) =>
                /\ pc'[p] = "idle"
                /\ result'[p].outcome = "GroupNotFoundError"
                /\ engines' = engines
                /\ _instances' = _instances
            /\ pc'[p] = "get_instance" => Exists(frame[p].group_id)
            /\ ~Exists(frame[p].group_id) =>
                /\ engines' = engines
                /\ _instances' = _instances
      ]_vars

\* A query and a streaming query of an id that has a left-over directory and
\* no row were both refused, and no engine was built.
C18_UnknownGroupRefused ==
    \E p, q \in Procs :
        /\ result[p].op = "query_group"
        /\ result[q].op = "query_group_stream"
        /\ \A r \in {p, q} :
            /\ result[r].outcome = "GroupNotFoundError"
            /\ ~Exists(result[r].group_id)
            /\ result[r].group_id \in dirs
        /\ engines = <<>>

\* C19: the stream of a query_group_stream request for an id without a row
\* is one error event that carries the detail, with no chunk and no done
\* event.
C19_UnknownGroupErrorEvent ==
    \A p \in Procs :
        /\ (frame[p].op = "query_group_stream" /\ ~Exists(frame[p].group_id)) =>
                frame[p].events = <<>>
        /\ (result[p].op = "query_group_stream" /\ ~Exists(result[p].group_id)) =>
                result[p].events = <<ErrorEvent("GroupNotFoundError")>>

\* A streaming query of an unknown id has ended while a streaming query of
\* group 1 forwarded a chunk.
C19_ErrorOnlyStream ==
    \E p, q \in Procs :
        /\ result[p].op = "query_group_stream"
        /\ ~Exists(result[p].group_id)
        /\ result[p].group_id \notin dirs
        /\ Len(result[p].events) = 1
        /\ frame[q].op = "query_group_stream"
        /\ frame[q].group_id = 1
        /\ Len(frame[q].events) = 1

\* C20: no step of query_group or query_group_stream writes to the tables
\* groups, documents, conversations and messages, whether the call returns,
\* raises or is canceled.
C20_QueryPersistsNothing ==
    [][\A p \in Procs :
        (Steps(p) /\ (frame[p].op \in QueryOps \/ frame'[p].op \in QueryOps)) =>
            db' = db
      ]_vars

\* A streaming query was canceled after a chunk, and the tables hold the two
\* messages of the chat_stream turn that ran beside it and nothing else.
C20_QueryBesideChat ==
    \E p, q \in Procs :
        /\ result[p].op = "query_group_stream"
        /\ result[p].outcome = "Cancelled"
        /\ Len(result[p].events) >= 1
        /\ result[q].op = "chat_stream"
        /\ result[q].outcome = "ok"
        /\ Len(messages) = 2
        /\ DOMAIN groups = {1}
        /\ DOMAIN conversations = {1}
        /\ documents = <<>>

\* -------------------------------------------------- eviction and shutdown
\* C21: remove_instance never raises: for a cached group it takes the handle
\* out of the cache and then finalizes it, and returns normally whether
\* finalize_storages returned or raised, the handle staying out of the cache;
\* for a group without a cached handle it changes nothing.
C21_EvictNeverRaises ==
    /\ [][\A p \in Procs :
            frame[p].op = "remove_instance" =>
                LET g == frame[p].group_id IN
                /\ (Leaves(p, "remove_instance") /\ Cached(g)) =>
                    /\ _instances'[g] = NoEngine
                    /\ frame'[p].rag = _instances[g]
                    /\ pc'[p] = "finalize_storages"
                /\ (Leaves(p, "remove_instance") /\ ~Cached(g)) =>
                    /\ result'[p].outcome = "ok"
                    /\ _instances' = _instances
                    /\ engines' = engines
                /\ Leaves(p, "finalize_storages") =>
                    /\ result'[p].outcome = "ok"
                    /\ engines'[frame[p].rag].finalize_calls =
                            engines[frame[p].rag].finalize_calls + 1
                    /\ _instances' = _instances
                    /\ _instances'[g] # frame[p].rag
        ]_vars
    /\ [](\A p \in Procs : result[p].op = "remove_instance" => result[p].outcome = "ok")

\* remove_instance returned for a handle whose finalize_storages raised, and
\* the group has no cached handle.
C21_FinalizeErrorSwallowed ==
    \E p \in Procs :
        /\ result[p].op = "remove_instance"
        /\ result[p].outcome = "ok"
        /\ result[p].rag # NoEngine
        /\ engines[result[p].rag].state = "finalize_failed"
        /\ _instances[result[p].group_id] = NoEngine

\* C22: when the process has shut down (the lifespan has ended) every engine
\* that was cached has been finalized and the cache is empty.
C22_ShutdownFinalizesAll ==
    \A p \in Procs :
        (result[p].op = "lifespan" /\ result[p].outcome = "ok") =>
            /\ \A g \in GroupIds : _instances[g] = NoEngine
            /\ \A h \in EngineIds :
                engines[h].state = "initialized" => engines[h].finalize_calls > 0

\* ------------------------------------------------------------- ownership
\* C23: whatever the interleaving of group deletes, conversation deletes,
\* document inserts and chat turns, every message row names a conversation
\* that has a row, and every conversation row and document row names a group
\* that has a row.
C23_NoOrphanRows ==
    /\ \A i \in 1..Len(messages) : messages[i].conversation_id \in DOMAIN conversations
    /\ \A c \in DOMAIN conversations : conversations[c].group_id \in DOMAIN groups
    /\ \A i \in 1..Len(documents) : documents[i].group_id \in DOMAIN groups

\* A chat turn or a document insert was refused by the foreign key: its owner
\* was deleted by the other request after the call had verified it.
C23_RefusedAfterOwnerDeleted ==
    \E p \in Procs :
        /\ result[p].outcome = "IntegrityError"
        /\ IF result[p].op = "insert_document"
           THEN result[p].group_id \notin DOMAIN groups
           ELSE /\ result[p].op \in ChatOps
                /\ result[p].conversation_id \notin DOMAIN conversations
        /\ \E q \in Procs \ {p} :
            /\ result[q].outcome = "ok"
            /\ result[q].op \in {"delete_group", "delete_conversation"}

\* C24: every message row has role user or assistant; a user row has no
\* query_mode and an assistant row has the mode of the request whose turn
\* wrote it.
C24_RoleAndModeTag ==
    /\ [](\A i \in 1..Len(messages) :
            \/ messages[i].role = "user" /\ messages[i].query_mode = "<None>"
            \/ messages[i].role = "assistant" /\ messages[i].query_mode \in Modes)
    /\ [][\A p \in Procs :
            (Steps(p) /\ Len(messages') > Len(messages)) =>
                LET m == messages'[Len(messages')] IN
                IF pc[p] = "chat_assistant_message"
                THEN m.role = "assistant" /\ m.query_mode = frame[p].mode
                ELSE m.role = "user" /\ m.query_mode = "<None>"
        ]_vars

\* Two turns with different modes were persisted: two untagged user rows and
\* two assistant rows with the two modes.
C24_BothModesPersisted ==
    /\ Len(messages) = 4
    /\ {messages[i].query_mode : i \in {i \in 1..4 : messages[i].role = "assistant"}} = Modes
    /\ {messages[i].query_mode : i \in {i \in 1..4 : messages[i].role = "user"}} = {"<None>"}

\* C25: every step that persists a new message in a conversation, the user
\* message of a turn as well as the assistant message, sets the
\* conversation's updated_at to the time of the step.
C25_BumpedOnEveryMessage ==
    [][\A c \in DOMAIN conversations :
        CountOf(messages', c) > CountOf(messages, c) =>
            conversations'[c].updated_at = clock
      ]_vars

\* The assistant rows of conversation c in msgs.
AssistantRows(msgs, c) ==
    SelectSeq(msgs, LAMBDA m : m.conversation_id = c /\ m.role = "assistant")

\* C30: the assistant INSERT and the UPDATE of updated_at take effect in one
\* step or not at all: a step that adds an assistant row to a conversation
\* sets its updated_at to the time of the step, a step that adds none leaves
\* updated_at as it is, and in every state updated_at is the conversation's
\* creation time when it has no assistant row and the time of its latest
\* assistant row when it has one.
C30_InsertAndBumpTogether ==
    /\ [][\A c \in DOMAIN conversations \cap DOMAIN conversations' :
            IF Len(AssistantRows(messages', c)) > Len(AssistantRows(messages, c))
            THEN conversations'[c].updated_at = clock
            ELSE conversations'[c].updated_at = conversations[c].updated_at
        ]_vars
    /\ [](\A c \in DOMAIN conversations :
            LET rows == AssistantRows(messages, c) IN
            conversations[c].updated_at =
                IF rows = <<>> THEN conversations[c].created_at
                ELSE rows[Len(rows)].created_at)

\* A second after the first turn's assistant row was committed with its
\* bump, the transaction of the next turn's assistant row failed: its row is
\* not in the table and updated_at is the time of the first turn's row.
C30_RolledBackAfterCommit ==
    \E p \in Procs :
        /\ result[p].op = "chat"
        /\ result[p].outcome = "OperationalError"
        /\ result[p].rag # NoEngine
        /\ result[p].assistant_msg_id # NoId
        /\ RowsOf(result[p].assistant_msg_id) = {}
        /\ RowsOf(result[p].user_msg_id) # {}
        /\ Len(AssistantRows(messages, result[p].conversation_id)) = 1
        /\ clock = 1
        /\ conversations[result[p].conversation_id].updated_at = 0

\* The operations that take a group id and a conversation id.
ConversationOps == {"chat", "chat_stream", "get_conversation_history", "delete_conversation"}

\* Request p is at the look-up of its conversation, and the conversation has
\* a row that belongs to another group than the one the call names.
OtherTenantsConversation(p) ==
    /\ frame[p].op \in ConversationOps
    /\ pc[p] \in {"chat_conversation", "get_conversation_history_row",
                  "delete_conversation_row"}
    /\ frame[p].conversation_id \in DOMAIN conversations
    /\ conversations[frame[p].conversation_id].group_id # frame[p].group_id

\* C26: chat, chat_stream, get_conversation_history and delete_conversation
\* called with a conversation that has a row under another group raise
\* ConversationNotFoundError at the look-up; neither that step nor the step
\* before it (the look-up of the group) writes or deletes a row or draws a
\* message id.
C26_OtherTenantsConversationRefused ==
    /\ [][\A p \in Procs :
            /\ (Steps(p) /\ OtherTenantsConversation(p)) =>
                /\ pc'[p] = "idle"
                /\ result'[p].outcome = "ConversationNotFoundError"
                /\ db' = db
                /\ nextMsgId' = nextMsgId
            /\ (Steps(p) /\ frame[p].op \in ConversationOps /\ pc[p] = frame[p].op) =>
                /\ db' = db
                /\ nextMsgId' = nextMsgId
        ]_vars
    /\ [](\A p \in Procs :
            result[p].outcome = "ConversationNotFoundError" =>
                /\ result[p].user_msg_id = NoId
                /\ result[p].assistant_msg_id = NoId
                /\ RowsOf(NoId) = {})

\* delete_conversation named group 2 and conversation 1, which belongs to
\* group 1, and was refused; the chat turn of the other request on group 1
\* and conversation 1 succeeded and its two messages are there.
C26_DeleteRefusedTurnKept ==
    \E p, q \in Procs :
        /\ result[p].op = "delete_conversation"
        /\ result[p].outcome = "ConversationNotFoundError"
        /\ result[p].group_id = 2 /\ result[p].conversation_id = 1
        /\ result[q].op = "chat"
        /\ result[q].outcome = "ok"
        /\ result[q].group_id = 1 /\ result[q].conversation_id = 1
        /\ 1 \in DOMAIN conversations
        /\ conversations[1].group_id = 1
        /\ Len(ConversationMessages(1)) = 2

\* ------------------------------------------------------------- documents
\* The rows of listing, whatever their order.
ListedRows(listing) == {listing[i] : i \in 1..Len(listing)}

\* The document that the insert_document call with result r wrote.
InsertedBy(r) ==
    {d \in ListedRows(documents) : d.id = r.doc_id}

\* C29: the INSERT of insert_document adds one row to the documents of its
\* group, with content_length the length of the text given, and leaves the
\* documents of the other groups as they are; list_documents returns the
\* rows of its group and their number as total, and among them the document
\* of every insert_document call for the group that has returned.
C29_InsertedDocumentListed ==
    /\ [][\A p \in Procs :
            /\ (Leaves(p, "insert_document_insert") /\ pc'[p] = "insert_document_select") =>
                LET g == frame[p].group_id IN
                /\ GroupDocuments(g)' =
                        Append(GroupDocuments(g),
                               [id |-> frame[p].doc_id, group_id |-> g,
                                filename |-> filename,
                                content_length |-> Len(frame[p].content),
                                created_at |-> clock])
                /\ \A h \in GroupIds \ {g} : GroupDocuments(h)' = GroupDocuments(h)
            /\ Leaves(p, "list_documents_select") =>
                LET g == frame[p].group_id
                    r == result'[p]
                IN
                /\ r.outcome = "ok"
                /\ r.count = Len(GroupDocuments(g))
                /\ Len(r.listing) = r.count
                /\ ListedRows(r.listing) = ListedRows(GroupDocuments(g))
                /\ \A q \in Procs :
                    (/\ result[q].op = "insert_document"
                     /\ result[q].outcome = "ok"
                     /\ result[q].group_id = g) =>
                        \E i \in 1..Len(r.listing) :
                            /\ r.listing[i].id = result[q].doc_id
                            /\ r.listing[i].content_length = Len(result[q].content)
        ]_vars
    /\ [](\A p \in Procs :
            (result[p].op = "insert_document" /\ result[p].outcome = "ok") =>
                /\ Cardinality(InsertedBy(result[p])) = 1
                /\ \A d \in InsertedBy(result[p]) :
                    /\ d.group_id = result[p].group_id
                    /\ d.content_length = Len(result[p].content))

\* Group 2 has a document of 2 characters; "hello" was inserted into group 1,
\* which had none, and list_documents of group 1 then returned that document
\* alone, with content_length 5 and total 1.
C29_HelloListed ==
    \E p, q \in Procs :
        /\ result[p].op = "insert_document"
        /\ result[p].outcome = "ok"
        /\ result[p].group_id = 1
        /\ result[p].content = <<"h", "e", "l", "l", "o">>
        /\ result[p].n_before = 0
        /\ result[q].op = "list_documents"
        /\ result[q].outcome = "ok"
        /\ result[q].group_id = 1
        /\ result[q].count = 1
        /\ result[q].listing[1].id = result[p].doc_id
        /\ result[q].listing[1].content_length = 5
        /\ Len(GroupDocuments(2)) = 1
        /\ GroupDocuments(2)[1].content_length = 2

\* ------------------------------------------------- the query endpoints
\* C27: POST /groups/{id}/query answers a request whose stream is true with
\* an event stream that ends with a terminal event, and a request whose
\* stream is false with one buffered response and no event.
C27_StreamFlagHonoured ==
    \A p \in Procs :
        (result[p].op = "query_group" /\ result[p].outcome = "ok") =>
            IF result[p].stream
            THEN /\ result[p].events # <<>>
                 /\ result[p].events[Len(result[p].events)].event \in Terminal
            ELSE result[p].events = <<>>

\* The consumer of request p's stream goes away in this step.
Cancels(p) ==
    /\ frame[p].op \in StreamOps
    /\ result'[p] # result[p]
    /\ result'[p].outcome = "Cancelled"

\* C28: when the consumer of a query or chat stream goes away the stream's
\* generator ends there: it has no continuation that could pull another
\* chunk from the engine, the events sent are the chunk events sent before
\* and no other, and the group's engine stays cached and initialized, so
\* that later requests for the group are served.
C28_CancelStopsTheStream ==
    /\ [][\A p \in Procs :
            Cancels(p) =>
                /\ pc'[p] = "idle"
                /\ frame'[p] = NoFrame
                /\ result'[p].events = frame[p].events
                /\ _instances' = _instances
                /\ engines' = engines
        ]_vars
    /\ [](\A p \in Procs :
            result[p].outcome = "Cancelled" =>
                /\ pc[p] = "idle"
                /\ frame[p] = NoFrame
                /\ \A i \in 1..Len(result[p].events) : result[p].events[i].event = "chunk"
                /\ Cached(result[p].group_id)
                /\ engines[_instances[result[p].group_id]].state = "initialized")

\* The consumer of a query stream on group 1 went away after one chunk; a
\* query stream on group 1 that was called after that was served to its end.
C28_ServedAfterCancel ==
    \E p, q \in Procs :
        /\ result[p].op = "query_group_stream"
        /\ result[p].outcome = "Cancelled"
        /\ Len(result[p].events) = 1
        /\ result[q].op = "query_group_stream"
        /\ result[q].after_cancel
        /\ result[q].group_id = result[p].group_id
        /\ result[q].outcome = "ok"
        /\ Len(result[q].events) = MaxChunks + 1

C32_DeletedConversationIsGone ==
    /\ [][\A p \in Procs :
            Leaves(p, "delete_conversation_delete") =>
                LET c == frame[p].conversation_id IN
                /\ result'[p].outcome = "ok"
                /\ c \notin DOMAIN conversations'
                /\ \A i \in 1..Len(messages') : messages'[i].conversation_id # c
                /\ SelectSeq(messages', LAMBDA m : m.conversation_id # c)
                        = SelectSeq(messages, LAMBDA m : m.conversation_id # c)
                /\ \A d \in DOMAIN conversations \ {c} :
                        d \in DOMAIN conversations' /\ conversations'[d] = conversations[d]
        ]_vars
    /\ [](\A c \in ConvIds : c \notin DOMAIN conversations => ConversationMessages(c) = <<>>)
    /\ \A p \in Procs, c \in ConvIds :
        []((c \notin DOMAIN conversations /\ pc[p] = "idle" /\ result[p] = NoResult)
            => [](result[p].conversation_id = c =>
                    IF result[p].group_id \in DOMAIN groups
                    THEN result[p].outcome = "ConversationNotFoundError"
                    ELSE result[p].outcome = "GroupNotFoundError"))

\* Conversation 1 of group 1 was deleted with its two messages; the other
\* request asked for a chat turn on it in group 1 and was refused;
\* conversation 2 has its row and its message.
C32_TurnRefusedAfterDelete ==
    \E p, q \in Procs :
        /\ result[p].op = "delete_conversation"
        /\ result[p].outcome = "ok"
        /\ result[p].conversation_id = 1
        /\ result[p].n_before = 2
        /\ result[q].op \in ChatOps
        /\ result[q].group_id = 1 /\ result[q].conversation_id = 1
        /\ result[q].outcome = "ConversationNotFoundError"
        /\ ConversationMessages(1) = <<>>
        /\ 2 \in DOMAIN conversations
        /\ Len(ConversationMessages(2)) = 1

\* ------------------------------------------------- the cache of engines
\* C33: every engine whose construction and storage initialization succeeded
\* is the handle cached for its group, or finalize_storages has been called
\* on it (the call has returned, has raised, or is being awaited by the
\* remove_instance that took the handle out of the cache).
C33_InitializedCachedOrFinalized ==
    \A h \in EngineIds :
        engines[h].state = "initialized" =>
            \/ _instances[engines[h].group_id] = h
            \/ \E p \in Procs : pc[p] = "finalize_storages" /\ frame[p].rag = h

\* The requests that await finalize_storages on engine h.
Finalizing(h) ==
    {p \in Procs : pc[p] \in {"finalize_storages", "shutdown_all_finalize"}
                    /\ frame[p].rag = h}

\* C34: however remove_instance and shutdown_all calls interleave,
\* finalize_storages is called at most once on each engine: an engine whose
\* finalization is awaited is no longer in the cache, at most one request
\* awaits it, and none once it has been finalized.
C34_FinalizedAtMostOnce ==
    \A h \in EngineIds :
        /\ engines[h].finalize_calls + Cardinality(Finalizing(h)) <= 1
        /\ Finalizing(h) # {} => \A g \in GroupIds : _instances[g] # h

\* shutdown_all and remove_instance are both suspended at the await on
\* finalize_storages, each with an engine of the same group.
C34_BothAwaitFinalization ==
    \E p, q \in Procs :
        /\ pc[p] = "finalize_storages"
        /\ pc[q] = "shutdown_all_finalize"
        /\ engines[frame[p].rag].group_id = engines[frame[q].rag].group_id

Occurrences(h, v) == Cardinality({i \in 1..Len(h) : h[i] = v})

\* C36: when the user message of a turn is still the last row of its
\* conversation at the history read, the history handed to the engine holds
\* that message and, with it, the up to 9 messages before it: the same
\* entries as the last 10 rows of the conversation, whatever their order.
C36_HistoryHoldsCurrentMessage ==
    [][\A p \in Procs :
        LET rows == ConversationMessages(frame[p].conversation_id)
            recent == RecentInCreationOrder(frame[p].conversation_id)
            history == frame'[p].history
        IN (/\ Leaves(p, "chat_history")
            /\ pc'[p] = "get_instance"
            /\ rows # <<>>
            /\ rows[Len(rows)].id = frame[p].user_msg_id) =>
                /\ Len(history) = Len(recent)
                /\ Occurrences(history, [role |-> "user", content |-> frame[p].message]) > 0
                /\ \A i \in 1..Len(recent) :
                    Occurrences(history, recent[i]) = Occurrences(recent, recent[i])
      ]_vars

\* ------------------------------------------------------ done of a stream
\* The chat_stream call with result r has sent done.
SentDone(r) ==
    /\ r.op = "chat_stream"
    /\ r.events # <<>>
    /\ r.events[Len(r.events)].event = "done"

\* The rows in listing of the turn with result r: its user and its assistant message.
TurnRows(listing, r) ==
    {i \in 1..Len(listing) :
        /\ listing[i].conversation_id = r.conversation_id
        /\ \/ listing[i].id = r.user_msg_id /\ listing[i].role = "user"
           \/ listing[i].id = r.assistant_msg_id /\ listing[i].role = "assistant"}

\* C37: when a chat_stream call has sent done, the user message and the
\* assistant message of its turn are committed: as long as the conversation
\* has not been deleted both rows are in the table, and a
\* get_conversation_history that reads the conversation then returns both.
C37_DoneAfterAssistantCommitted ==
    /\ [](\A p \in Procs :
            (SentDone(result[p]) /\ result[p].conversation_id \in DOMAIN conversations) =>
                /\ result[p].outcome = "ok"
                /\ result[p].user_msg_id # result[p].assistant_msg_id
                /\ Cardinality(TurnRows(messages, result[p])) = 2)
    /\ [][\A p, q \in Procs :
            (/\ SentDone(result[p])
             /\ Leaves(q, "get_conversation_history_select")
             /\ frame[q].conversation_id = result[p].conversation_id) =>
                Cardinality(TurnRows(result'[q].listing, result[p])) = 2
        ]_vars

\* A chat_stream call sent two chunks and done, and a
\* get_conversation_history called after it returned the two messages of the
\* turn, the assistant message holding the two chunks.
C37_HistoryReadAfterDone ==
    \E p, q \in Procs :
        /\ SentDone(result[p])
        /\ Len(result[p].events) = 3
        /\ result[q].op = "get_conversation_history"
        /\ result[q].outcome = "ok"
        /\ result[q].conversation_id = result[p].conversation_id
        /\ result[q].n_before = 2
        /\ Len(result[q].listing) = 2
        /\ Cardinality(TurnRows(result[q].listing, result[p])) = 2
        /\ Len(result[q].listing[2].content) = 2

\* ------------------------------------------------- insert_document fails
\* The ways insert_document fails before its INSERT: the group has no row,
\* the engine is not ready, the engine's insert raised.
FailsBeforeRow == {"GroupNotFoundError", "LightRAGNotReadyError", "EngineError"}

\* C38: insert_document writes its document row only after the engine's
\* insert has returned: no step of the call before the INSERT changes the
\* documents table, and a call that failed because the group does not exist,
\* the engine was not ready or the engine's insert raised has left no row.
C38_NoRowWithoutEngineInsert ==
    /\ [][\A p \in Procs :
            (Steps(p) /\ frame[p].op = "insert_document"
                      /\ pc[p] # "insert_document_insert") => documents' = documents
        ]_vars
    /\ [](\A p \in Procs :
            (result[p].op = "insert_document" /\ result[p].outcome \in FailsBeforeRow) =>
                InsertedBy(result[p]) = {})
    /\ [](\A p \in Procs :
            (frame[p].op = "insert_document" /\ pc[p] # "insert_document_select") =>
                \A i \in 1..Len(documents) : documents[i].id # frame[p].doc_id)

\* Group 1 has one document, inserted by one request; the insert of the other
\* request into group 1, called when that document was there, failed at the
\* engine's insert, and group 1 still has one document.
C38_EngineInsertFailed ==
    \E p, q \in Procs :
        /\ result[p].op = "insert_document"
        /\ result[p].outcome = "EngineError"
        /\ result[p].group_id = 1
        /\ result[p].n_before = 1
        /\ result[p].doc_id # NoId
        /\ result[q].op = "insert_document"
        /\ result[q].outcome = "ok"
        /\ result[q].group_id = 1
        /\ Len(GroupDocuments(1)) = 1

\* ------------------------------------------------- the storage directory
\* C39: every group that has a row has its storage directory, once the
\* create_group call that wrote the row is past its mkdir, whether the call
\* returned or raised.
C39_RowHasDirectory ==
    \A g \in DOMAIN groups :
        \/ g \in dirs
        \/ \E p \in Procs : pc[p] = "create_group_mkdir" /\ frame[p].group_id = g

====
